---- MODULE Spec2Model ----
(***************************************************************************)
(* Model of the skhd configuration engine (src-tauri/src): the Shortcut    *)
(* and ConfigFile models, the parser and serializer, the atomic writer,    *)
(* the backup service and the shortcut commands on the shared ConfigState. *)
(*                                                                         *)
(* Strings are sequences of one-character strings, so that sorting,        *)
(* trimming, joining and parsing are computed character by character.      *)
(* Option<T> is a sequence of length 0 (None) or 1 (Some).                 *)
(***************************************************************************)
EXTENDS Integers, Sequences, FiniteSets, Bags, TLC

VARIABLES
    config,     \* ConfigState.config: Option<ConfigFile> behind the mutex
    nextId,     \* source of fresh ids (Uuid::new_v4)
    lastCmd,    \* the last command or operation applied: name, request, result
    candidate,  \* the Shortcut handed to the model operation under test
    other,      \* a second Shortcut, compared with candidate
    files,      \* the file system: path |-> bytes, for the files that exist
    writer,     \* the write_config_atomic call in progress: its locals and position
    clock,      \* chrono::Utc::now(), in seconds
    backups,    \* the Backup records the caller holds
    lock,       \* the task that holds the ConfigState.config mutex, 0 when free
    tasks,      \* the command calls in progress: command, position, locals
    running_ids,    \* ExecutionState.running_ids
    children    \* the child processes that run: shortcut id and spawning task

vars == <<config, nextId, lastCmd, candidate, other, files, writer, clock, backups,
          lock, tasks, running_ids, children>>
modelVars == <<config, nextId, candidate, other>>
diskVars == <<files, writer, clock, backups>>
execVars == <<lock, tasks, running_ids, children>>

\* the mutex, the calls and the processes when no call in steps is modelled
ExecUnused ==
    /\ lock = 0
    /\ tasks = <<>>
    /\ running_ids = {}
    /\ children = {}

(***************************************************************************)
(* Characters and strings                                                  *)
(***************************************************************************)
\* The characters used, in increasing byte order (Rust compares str bytewise).
AsciiOrder ==
    <<"\n", " ", "#", "+", "-", ":", "a", "b", "c", "d", "e", "f", "g", "h",
      "i", "k", "l", "m", "n", "o", "p", "r", "s", "t", "x", "y", "~">>

Code(c) == CHOOSE i \in 1..Len(AsciiOrder) : AsciiOrder[i] = c

\* <str as Ord>::cmp(s, t) # Greater
RECURSIVE StrLeq(_, _)
StrLeq(s, t) ==
    IF s = <<>> THEN TRUE
    ELSE IF t = <<>> THEN FALSE
    ELSE IF Code(s[1]) < Code(t[1]) THEN TRUE
    ELSE IF Code(s[1]) > Code(t[1]) THEN FALSE
    ELSE StrLeq(Tail(s), Tail(t))

\* insertion of x after every element that is not greater (a stable sort step)
RECURSIVE InsertStr(_, _)
InsertStr(x, sorted) ==
    IF sorted = <<>> THEN <<x>>
    ELSE IF StrLeq(sorted[1], x) THEN <<sorted[1]>> \o InsertStr(x, Tail(sorted))
    ELSE <<x>> \o sorted

\* Vec<String>::sort()
RECURSIVE SortStrings(_)
SortStrings(v) ==
    IF v = <<>> THEN <<>>
    ELSE InsertStr(v[Len(v)], SortStrings(SubSeq(v, 1, Len(v) - 1)))

\* [String]::join(sep)
RECURSIVE Join(_, _)
Join(v, sep) ==
    IF v = <<>> THEN <<>>
    ELSE IF Len(v) = 1 THEN v[1]
    ELSE v[1] \o sep \o Join(Tail(v), sep)

\* char::is_whitespace, on the characters used
IsWhitespace(c) == c \in {" ", "\n", "\t", "\r"}

RECURSIVE TrimStart(_)
TrimStart(s) ==
    IF s # <<>> /\ IsWhitespace(s[1]) THEN TrimStart(Tail(s)) ELSE s

RECURSIVE TrimEnd(_)
TrimEnd(s) ==
    IF s # <<>> /\ IsWhitespace(s[Len(s)])
    THEN TrimEnd(SubSeq(s, 1, Len(s) - 1)) ELSE s

\* str::trim
Trim(s) == TrimEnd(TrimStart(s))

\* Vec::dedup: drops every element equal to its predecessor
RECURSIVE Dedup(_)
Dedup(v) ==
    IF Len(v) <= 1 THEN v
    ELSE IF v[1] = v[2] THEN Dedup(Tail(v))
    ELSE <<v[1]>> \o Dedup(Tail(v))

None == <<>>
Some(x) == <<x>>

\* Result values
Ok(v) == [ok |-> TRUE, value |-> v]
Err(e) == [ok |-> FALSE, err |-> e]

\* modifier tokens and the other words of the examples
cmd == <<"c", "m", "d">>
alt == <<"a", "l", "t">>
shift == <<"s", "h", "i", "f", "t">>
ctrl == <<"c", "t", "r", "l">>
fn == <<"f", "n">>

(***************************************************************************)
(* models/shortcut.rs                                                      *)
(***************************************************************************)
\* Shortcut::new with one id for every shortcut
Shortcut_new_same_id(id, modifiers, key, command, line_number) ==
    [id |-> 1, modifiers |-> modifiers, key |-> key, command |-> command,
     mode |-> None, comment |-> None, line_number |-> line_number]

\* Shortcut::new; id is the value Uuid::new_v4() gives, taken to be one no
\* earlier call gave
Shortcut_new(id, modifiers, key, command, line_number) ==
    [id |-> id, modifiers |-> modifiers, key |-> key, command |-> command,
     mode |-> None, comment |-> None, line_number |-> line_number]

Shortcut_with_id(id, modifiers, key, command, line_number) ==
    [id |-> id, modifiers |-> modifiers, key |-> key, command |-> command,
     mode |-> None, comment |-> None, line_number |-> line_number]

key_combination_string_unsorted(self) ==
    IF self.modifiers = <<>> THEN self.key
    ELSE Join(self.modifiers, <<" ", "+", " ">>) \o <<" ", "-", " ">> \o self.key

key_combination_string(self) ==
    IF self.modifiers = <<>> THEN self.key
    ELSE Join(SortStrings(self.modifiers), <<" ", "+", " ">>)
             \o <<" ", "-", " ">> \o self.key

has_same_combination_ignoring_mode(self, o) ==
    IF self.key # o.key THEN FALSE
    ELSE SortStrings(self.modifiers) = SortStrings(o.modifiers)

has_same_combination(self, o) ==
    IF self.key # o.key THEN FALSE
    ELSE SortStrings(self.modifiers) = SortStrings(o.modifiers)
         /\ self.mode = o.mode

valid_modifiers == {cmd, alt, shift, ctrl, fn}

validate_dedup_unsorted(self) ==
    IF Trim(self.command) = <<>> THEN Err([msg |-> "Command cannot be empty"])
    ELSE IF Trim(self.key) = <<>> THEN Err([msg |-> "Key cannot be empty"])
    ELSE IF \E i \in DOMAIN self.modifiers : self.modifiers[i] \notin valid_modifiers
    THEN LET first == CHOOSE i \in DOMAIN self.modifiers :
                        /\ self.modifiers[i] \notin valid_modifiers
                        /\ \A j \in 1..(i - 1) : self.modifiers[j] \in valid_modifiers
         IN Err([msg |-> "Invalid modifier", arg |-> self.modifiers[first]])
    ELSE IF Len(Dedup(self.modifiers)) # Len(self.modifiers)
    THEN Err([msg |-> "Duplicate modifiers not allowed"])
    ELSE Ok(<<>>)

\* Shortcut::validate: Ok, or the message of the first failing check
validate(self) ==
    IF Trim(self.command) = <<>> THEN Err([msg |-> "Command cannot be empty"])
    ELSE IF Trim(self.key) = <<>> THEN Err([msg |-> "Key cannot be empty"])
    ELSE IF \E i \in DOMAIN self.modifiers : self.modifiers[i] \notin valid_modifiers
    THEN LET first == CHOOSE i \in DOMAIN self.modifiers :
                        /\ self.modifiers[i] \notin valid_modifiers
                        /\ \A j \in 1..(i - 1) : self.modifiers[j] \in valid_modifiers
         IN Err([msg |-> "Invalid modifier", arg |-> self.modifiers[first]])
    ELSE IF Len(Dedup(SortStrings(self.modifiers))) # Len(self.modifiers)
    THEN Err([msg |-> "Duplicate modifiers not allowed"])
    ELSE Ok(<<>>)

(***************************************************************************)
(* models/config.rs                                                        *)
(***************************************************************************)
ConfigFile_new(file_path) ==
    [file_path |-> file_path, shortcuts |-> <<>>, global_comments |-> <<>>,
     is_modified |-> FALSE, parse_errors |-> <<>>]

add_shortcut(self, shortcut) ==
    [self EXCEPT !.shortcuts = Append(@, shortcut), !.is_modified = TRUE]

\* iter().position(|s| s.id == id), 0 when there is none
Position(shortcuts, id) ==
    IF \E i \in 1..Len(shortcuts) : shortcuts[i].id = id
    THEN CHOOSE i \in 1..Len(shortcuts) :
            /\ shortcuts[i].id = id
            /\ \A j \in 1..(i - 1) : shortcuts[j].id # id
    ELSE 0

RemoveAt(v, i) == SubSeq(v, 1, i - 1) \o SubSeq(v, i + 1, Len(v))

\* the config after remove_shortcut, and the Option<Shortcut> it returns
remove_shortcut(self, id) ==
    LET index == Position(self.shortcuts, id) IN
    IF index # 0
    THEN [config |-> [self EXCEPT !.shortcuts = RemoveAt(@, index),
                                  !.is_modified = TRUE],
          removed |-> Some(self.shortcuts[index])]
    ELSE [config |-> self, removed |-> None]

\* update_shortcut taking the entry out and pushing the new value
update_shortcut_moving(self, updated) ==
    LET index == Position(self.shortcuts, updated.id) IN
    IF index # 0
    THEN [config |-> [self EXCEPT !.shortcuts = Append(RemoveAt(@, index), updated),
                                  !.is_modified = TRUE],
          found |-> TRUE]
    ELSE [config |-> self, found |-> FALSE]

\* update_shortcut pushing the shortcut when no entry has its id
update_shortcut_inserting(self, updated) ==
    LET index == Position(self.shortcuts, updated.id) IN
    IF index # 0
    THEN [config |-> [self EXCEPT !.shortcuts[index] = updated,
                                  !.is_modified = TRUE],
          found |-> TRUE]
    ELSE [config |-> add_shortcut(self, updated), found |-> FALSE]

\* the config after update_shortcut, and the bool it returns
update_shortcut(self, updated) ==
    LET index == Position(self.shortcuts, updated.id) IN
    IF index # 0
    THEN [config |-> [self EXCEPT !.shortcuts[index] = updated,
                                  !.is_modified = TRUE],
          found |-> TRUE]
    ELSE [config |-> self, found |-> FALSE]

find_shortcut(self, id) ==
    LET index == Position(self.shortcuts, id) IN
    IF index # 0 THEN Some(self.shortcuts[index]) ELSE None

find_duplicates_including_self(self, shortcut) ==
    SelectSeq(self.shortcuts, LAMBDA s : has_same_combination(s, shortcut))

find_duplicates(self, shortcut) ==
    SelectSeq(self.shortcuts,
              LAMBDA s : s.id # shortcut.id /\ has_same_combination(s, shortcut))

ConfigFile_validate_adjacent_pairs(self) ==
    LET v == self.shortcuts
        invalid == SelectSeq([i \in DOMAIN v |-> i], LAMBDA i : ~validate(v[i]).ok)
        line(i) == [line |-> v[i].line_number, error |-> validate(v[i]).err]
        twins(i) == SelectSeq([k \in 1..(Len(v) - i) |-> i + k],
                              LAMBDA j : j = i + 1 /\ has_same_combination(v[i], v[j]))
        duplicate(i, j) == [msg |-> "Duplicate key combination",
                            combination |-> key_combination_string(v[i]),
                            lines |-> <<v[i].line_number, v[j].line_number>>]
        pairs(i, js) == [k \in DOMAIN js |-> duplicate(i, js[k])]
        result(errors) == IF errors = <<>> THEN Ok(<<>>) ELSE Err(errors)
    IN result([k \in DOMAIN invalid |-> line(invalid[k])]
              \o Join([i \in DOMAIN v |-> pairs(i, twins(i))], <<>>))

\* ConfigFile::validate: Ok, or the "Line N: ..." errors of the invalid
\* shortcuts followed by the duplicate errors of the pairs i < j
ConfigFile_validate(self) ==
    LET v == self.shortcuts
        invalid == SelectSeq([i \in DOMAIN v |-> i], LAMBDA i : ~validate(v[i]).ok)
        line(i) == [line |-> v[i].line_number, error |-> validate(v[i]).err]
        twins(i) == SelectSeq([k \in 1..(Len(v) - i) |-> i + k],
                              LAMBDA j : has_same_combination(v[i], v[j]))
        duplicate(i, j) == [msg |-> "Duplicate key combination",
                            combination |-> key_combination_string(v[i]),
                            lines |-> <<v[i].line_number, v[j].line_number>>]
        pairs(i, js) == [k \in DOMAIN js |-> duplicate(i, js[k])]
        result(errors) == IF errors = <<>> THEN Ok(<<>>) ELSE Err(errors)
    IN result([k \in DOMAIN invalid |-> line(invalid[k])]
              \o Join([i \in DOMAIN v |-> pairs(i, twins(i))], <<>>))

(***************************************************************************)
(* services/file_io.rs.  A path is [dir, name, stamp]: stamp is 0 for a     *)
(* plain file and the distinguishing part of a generated name otherwise.    *)
(* File contents are sequences of bytes (0..255) or, for configuration     *)
(* text, of characters.                                                     *)
(***************************************************************************)
Path(dir, name) == [dir |-> dir, name |-> name, stamp |-> 0]

Exists(fs, path) == path \in DOMAIN fs

\* fs::read: the bytes, or an io::Error when the file does not exist
Read(fs, path) == IF Exists(fs, path) THEN Ok(fs[path]) ELSE Err([msg |-> "io"])

\* the file system once path holds bytes (created or replaced as a whole)
Put(fs, path, bytes) ==
    [p \in DOMAIN fs \cup {path} |-> IF p = path THEN bytes ELSE fs[p]]

Remove(fs, path) == [p \in DOMAIN fs \ {path} |-> fs[p]]

\* rename(2): path `to` now names the file `from` named; `from` is gone
Rename(fs, from, to) == Remove(Put(fs, to, fs[from]), from)

\* what a reader of path sees: None when there is no such file
Content(fs, path) == IF Exists(fs, path) THEN Some(fs[path]) ELSE None

\* NamedTempFile::new_in(parent): a name in parent that no file has
TempPath(dir, n) == [dir |-> dir, name |-> ".tmp", stamp |-> n]

WriterIdle == [pc |-> "idle"]

EmptyFs == [p \in {} |-> <<>>]

\* the file system and the writer when no file operation is modelled
DiskUnused ==
    /\ files = EmptyFs
    /\ writer = WriterIdle
    /\ clock = 0
    /\ backups = <<>>

\* write_config_atomic(path, content), one step per call it makes.
\* pc names the next call: create_dir_all, NamedTempFile::new_in, write_all
\* (one byte at a time), sync_all, persist; then "done" (Ok returned),
\* "failed" (an io::Error returned) or "crashed" (the process died).
write_begin(fs, path, content) ==
    [pc |-> "create_dir_all", path |-> path, content |-> content,
     temp |-> None, prior |-> Content(fs, path)]

\* the temp file is written straight under the target's name
create_temp_in_place(fs, w, n) ==
    [fs |-> Put(fs, w.path, <<>>),
     w |-> [w EXCEPT !.pc = IF w.content = <<>> THEN "sync_all" ELSE "write_all",
                     !.temp = Some(w.path)]]

create_temp(fs, w, n) ==
    [fs |-> Put(fs, TempPath(w.path.dir, n), <<>>),
     w |-> [w EXCEPT !.pc = IF w.content = <<>> THEN "sync_all" ELSE "write_all",
                     !.temp = Some(TempPath(w.path.dir, n))]]

\* write_all: the next byte reaches the temp file
write_chunk(fs, w) ==
    LET t == w.temp[1] IN
    [fs |-> Put(fs, t, Append(fs[t], w.content[Len(fs[t]) + 1])),
     w |-> IF Len(fs[t]) + 1 = Len(w.content) THEN [w EXCEPT !.pc = "sync_all"] ELSE w]

\* persist(path): rename the temp file over the target
persist(fs, w) ==
    [fs |-> Rename(fs, w.temp[1], w.path),
     w |-> [w EXCEPT !.pc = "done", !.temp = None]]

\* an io::Error at the current call: `?` returns it, and dropping the
\* NamedTempFile (also the one inside PersistError) deletes the temp file
write_fail(fs, w) ==
    [fs |-> IF w.temp # None /\ Exists(fs, w.temp[1]) THEN Remove(fs, w.temp[1]) ELSE fs,
     w |-> [w EXCEPT !.pc = "failed", !.temp = None]]

\* the whole call when no step fails: the file system it leaves
write_config_atomic(fs, path, content) == Put(fs, path, content)

(***************************************************************************)
(* services/backup.rs, models/backup.rs                                     *)
(***************************************************************************)
\* Sha256 of the bytes, as the hex string format!("{:x}") gives.  The digest
\* is taken to be collision free: it is a value that determines the bytes.
Sha256(bytes) == <<"sha256", bytes>>

\* String::from_utf8_lossy(bytes).as_bytes(), for bytes that are ASCII
\* (< 128), the lead byte of a two-byte sequence (0xC2..0xDF), a continuation
\* byte (0x80..0xBF) or a byte no UTF-8 text holds (0xF5..0xFF): a
\* well-formed sequence is kept, every other byte becomes U+FFFD (EF BF BD).
RECURSIVE from_utf8_lossy(_)
from_utf8_lossy(bytes) ==
    IF bytes = <<>> THEN <<>>
    ELSE IF bytes[1] < 128 THEN <<bytes[1]>> \o from_utf8_lossy(Tail(bytes))
    ELSE IF /\ bytes[1] \in 194..223
            /\ Len(bytes) >= 2
            /\ bytes[2] \in 128..191
    THEN <<bytes[1], bytes[2]>> \o from_utf8_lossy(Tail(Tail(bytes)))
    ELSE <<239, 191, 189>> \o from_utf8_lossy(Tail(bytes))

\* a checksum string that is the digest of no content
InvalidChecksum == <<"invalid_checksum">>

\* <source file name>_<%Y%m%d_%H%M%S>.backup in the backup directory
BackupPath(source_path, now) ==
    [dir |-> "backups", name |-> source_path.name, stamp |-> now]

Backup_new(file_path, original_path, checksum, size_bytes, now) ==
    [file_path |-> file_path, original_path |-> original_path, created_at |-> now,
     checksum |-> checksum, description |-> None, size_bytes |-> size_bytes]

\* create_backup(source_path, None) at time now: the file system it leaves
\* and the Result<Backup> it returns
create_backup(fs, source_path, now) ==
    LET read == Read(fs, source_path) IN
    IF ~read.ok THEN [fs |-> fs, result |-> read]
    ELSE LET content == read.value
             backup_path == BackupPath(source_path, now)
         IN [fs |-> Put(fs, backup_path, content),
             result |-> Ok(Backup_new(backup_path, source_path, Sha256(content),
                                      Len(content), now))]

\* backups.sort_by(|a, b| b.created_at.cmp(&a.created_at)): stable, the
\* later created_at first
RECURSIVE sort_by_created_at_desc(_)
sort_by_created_at_desc(v) ==
    IF v = <<>> THEN <<>>
    ELSE LET rest == sort_by_created_at_desc(SubSeq(v, 1, Len(v) - 1))
             x == v[Len(v)]
             n == Cardinality({i \in DOMAIN rest : rest[i].created_at >= x.created_at})
         IN SubSeq(rest, 1, n) \o <<x>> \o SubSeq(rest, n + 1, Len(rest))

\* list_backups(): entries are the paths fs::read_dir yields, in the order
\* it yields them, and now[i] is the instant at which Backup::new is called
\* for entry i
list_backups(fs, entries, now) ==
    LET is_backup(path) == path.dir = "backups"
        record(i) ==
            Backup_new(entries[i], Path("skhd", entries[i].name),
                       Sha256(fs[entries[i]]), Len(fs[entries[i]]), now[i])
        kept == SelectSeq([i \in DOMAIN entries |-> record(i)],
                          LAMBDA b : is_backup(b.file_path))
    IN Ok(sort_by_created_at_desc(kept))

restore_backup_unverified(fs, backup, target_path) ==
    LET target == IF target_path # None THEN target_path[1] ELSE backup.original_path
        read == Read(fs, backup.file_path)
    IN IF ~read.ok THEN [fs |-> fs, result |-> read]
       ELSE [fs |-> write_config_atomic(fs, target, from_utf8_lossy(read.value)),
             result |-> Ok(<<>>)]

\* restore_backup(backup, target_path): the file system it leaves and the
\* Result it returns
restore_backup(fs, backup, target_path) ==
    LET target == IF target_path # None THEN target_path[1] ELSE backup.original_path
        read == Read(fs, backup.file_path)
    IN IF ~read.ok THEN [fs |-> fs, result |-> read]
       ELSE IF Sha256(read.value) # backup.checksum
       THEN [fs |-> fs,
             result |-> Err([msg |-> "Backup checksum mismatch - file may be corrupted"])]
       ELSE [fs |-> write_config_atomic(fs, target, from_utf8_lossy(read.value)),
             result |-> Ok(<<>>)]

(***************************************************************************)
(* parser/grammar.pest.  The grammar file is not part of the sources at     *)
(* hand; the rules below follow the description of the configuration        *)
(* language: each physical line is a comment (begins with #), an empty      *)
(* line (whitespace only) or a shortcut ([modifier (+ modifier)*] - key :   *)
(* command, the command being what follows the first ':'), and a text with  *)
(* a line of no such shape does not match config_file.                      *)
(***************************************************************************)
\* the pieces of s between the occurrences of the character sep
RECURSIVE Split(_, _)
Split(s, sep) ==
    IF \A i \in DOMAIN s : s[i] # sep THEN <<s>>
    ELSE LET p == CHOOSE i \in DOMAIN s : s[i] = sep /\ \A j \in 1..(i - 1) : s[j] # sep
         IN <<SubSeq(s, 1, p - 1)>> \o Split(SubSeq(s, p + 1, Len(s)), sep)

\* the physical lines of a text: a final newline ends the last line
config_file_lines(content) ==
    LET pieces == Split(content, "\n") IN
    IF pieces[Len(pieces)] = <<>> THEN SubSeq(pieces, 1, Len(pieces) - 1) ELSE pieces

\* the pair a line gives: its rule and, for a shortcut, the inner pairs
\* (modifier tokens, key token, command text); rule "none" when the line
\* has none of the three shapes
line_rule(line) ==
    LET colon == Split(line, ":")
        head == colon[1]
        dash == Split(head, "-")
        mods == IF Trim(dash[1]) = <<>> THEN <<>>
                ELSE LET parts == Split(dash[1], "+")
                     IN [i \in DOMAIN parts |-> Trim(parts[i])]
        key == Trim(SubSeq(head, Len(dash[1]) + 2, Len(head)))
    IN IF line # <<>> /\ line[1] = "#" THEN [rule |-> "comment", str |-> line]
       ELSE IF Trim(line) = <<>> THEN [rule |-> "empty_line"]
       ELSE IF /\ Len(colon) >= 2
               /\ Len(dash) >= 2
               /\ \A i \in DOMAIN mods : mods[i] \in valid_modifiers
               /\ \A i \in DOMAIN key : ~IsWhitespace(key[i])
       THEN [rule |-> "shortcut", modifiers |-> mods, key |-> key,
             command |-> SubSeq(line, Len(head) + 2, Len(line))]
       ELSE [rule |-> "none"]

\* SkhdParser::parse(Rule::config_file, content): the pairs of the lines, or
\* the position of the first line that has no shape
SkhdParser_parse(content) ==
    LET first(bad) == CHOOSE i \in bad : \A j \in bad : i <= j
        result(pairs, bad) ==
            IF bad = {} THEN Ok(pairs) ELSE Err([line |-> first(bad), col |-> 1])
        classify(lines) ==
            result([i \in DOMAIN lines |-> line_rule(lines[i])],
                   {i \in DOMAIN lines : line_rule(lines[i]).rule = "none"})
    IN classify(config_file_lines(content))

(***************************************************************************)
(* parser/mod.rs                                                            *)
(***************************************************************************)
RECURSIVE trim_start_matches(_, _)
trim_start_matches(s, c) ==
    IF s # <<>> /\ s[1] = c THEN trim_start_matches(Tail(s), c) ELSE s

RECURSIVE trim_end_matches(_, _)
trim_end_matches(s, c) ==
    IF s # <<>> /\ s[Len(s)] = c
    THEN trim_end_matches(SubSeq(s, 1, Len(s) - 1), c) ELSE s

ParseError(line_number, column, message) ==
    [line_number |-> line_number, column |-> column, message |-> message]

comment_text_keeping_hash(str) ==
    Trim(trim_end_matches(trim_end_matches(str, "\n"), "\r"))

\* the text of a comment pair (Rule::comment arm)
comment_text(str) ==
    Trim(trim_start_matches(trim_end_matches(trim_end_matches(str, "\n"), "\r"), "#"))

\* parse_shortcut with the command taken as the pair's text, not trimmed
parse_shortcut_untrimmed(pair, line_num) ==
    LET modifiers == pair.modifiers
        key == pair.key
        command == pair.command
    IN IF key = <<>>
       THEN Err(ParseError(line_num, None, "Missing key specification"))
       ELSE IF Trim(command) = <<>>
       THEN Err(ParseError(line_num, None, "Missing command specification"))
       ELSE Ok([line_number |-> line_num, modifiers |-> modifiers, key |-> key,
                command |-> command, comment |-> None])

\* parse_shortcut(pair, line_num)
parse_shortcut(pair, line_num) ==
    LET modifiers == pair.modifiers
        key == pair.key
        command == Trim(pair.command)
    IN IF key = <<>>
       THEN Err(ParseError(line_num, None, "Missing key specification"))
       ELSE IF command = <<>>
       THEN Err(ParseError(line_num, None, "Missing command specification"))
       ELSE Ok([line_number |-> line_num, modifiers |-> modifiers, key |-> key,
                command |-> command, comment |-> None])

\* the loop over the pairs of config_file: the ConfigLines pushed and the
\* errors collected from line_num on
RECURSIVE process_lines(_, _, _, _)
process_lines(pairs, line_num, lines, errors) ==
    IF pairs = <<>> THEN [lines |-> lines, errors |-> errors]
    ELSE LET pair == pairs[1] IN
         IF pair.rule = "comment"
         THEN process_lines(Tail(pairs), line_num + 1,
                  Append(lines, [line |-> "Comment", line_number |-> line_num,
                                 text |-> comment_text(pair.str)]),
                  errors)
         ELSE IF pair.rule = "shortcut"
         THEN LET r == parse_shortcut(pair, line_num) IN
              IF r.ok
              THEN process_lines(Tail(pairs), line_num + 1,
                       Append(lines, [line |-> "Shortcut", shortcut |-> r.value]),
                       errors)
              ELSE process_lines(Tail(pairs), line_num + 1, lines,
                       Append(errors, r.err))
         ELSE process_lines(Tail(pairs), line_num + 1,
                  Append(lines, [line |-> "Empty", line_number |-> line_num]),
                  errors)

\* parse_config(content): Ok(ParsedConfig) or Err(Vec<ParseError>)
parse_config(content) ==
    LET finish(out) ==
            IF out.errors = <<>> THEN Ok([lines |-> out.lines]) ELSE Err(out.errors)
        walk(pairs) ==
            IF ~pairs.ok
            THEN Err(<<ParseError(pairs.err.line, Some(pairs.err.col), "Syntax error")>>)
            ELSE finish(process_lines(pairs.value, 1, <<>>, <<>>))
    IN walk(SkhdParser_parse(content))

(***************************************************************************)
(* commands/config.rs                                                       *)
(***************************************************************************)
\* Vec::sort_by_key(|s| s.line_number): stable
RECURSIVE sort_by_line_number(_)
sort_by_line_number(v) ==
    IF v = <<>> THEN <<>>
    ELSE LET rest == sort_by_line_number(SubSeq(v, 1, Len(v) - 1))
             x == v[Len(v)]
             n == Cardinality({i \in DOMAIN rest : rest[i].line_number <= x.line_number})
         IN SubSeq(rest, 1, n) \o <<x>> \o SubSeq(rest, n + 1, Len(rest))

\* serialize_config(config): the text
serialize_config(cfg) ==
    LET comment_line(c) == <<"#", " ">> \o c \o <<"\n">>
        shortcuts == sort_by_line_number(cfg.shortcuts)
        modifier_str(s) ==
            IF s.modifiers = <<>> THEN <<>>
            ELSE Join(SortStrings(s.modifiers), <<" ", "+", " ">>) \o <<" ">>
        shortcut_lines(s) ==
            (IF s.comment # None THEN comment_line(s.comment[1]) ELSE <<>>)
            \o modifier_str(s) \o <<"-", " ">> \o s.key \o <<" ", ":", " ">>
            \o s.command \o <<"\n">>
    IN Join([i \in DOMAIN cfg.global_comments |-> comment_line(cfg.global_comments[i])],
            <<>>)
       \o (IF cfg.global_comments # <<>> THEN <<"\n">> ELSE <<>>)
       \o Join([i \in DOMAIN shortcuts |-> shortcut_lines(shortcuts[i])], <<>>)

\* load_config_from_path(path, state), the ids from uuid on being those that
\* Shortcut::new generates: the state it leaves, the Result it returns and
\* the number of ids used
load_config_from_path(fs, path, state, uuid) ==
    LET convert(ps, pc) ==
            [ConfigFile_new(path) EXCEPT
                !.shortcuts = [i \in DOMAIN ps |->
                    Shortcut_new(uuid + i - 1, ps[i].shortcut.modifiers,
                                 ps[i].shortcut.key, ps[i].shortcut.command,
                                 ps[i].shortcut.line_number)],
                !.global_comments = [i \in DOMAIN pc |-> pc[i].text],
                !.is_modified = FALSE]
        loaded(cfg) ==
            [state |-> Some(cfg), used |-> Len(cfg.shortcuts), result |-> Ok(cfg)]
        parsed(r) ==
            IF ~r.ok
            THEN [state |-> state, used |-> 0,
                  result |-> Err([msg |-> "Failed to parse config",
                                  errors |-> Len(r.err)])]
            ELSE loaded(convert(SelectSeq(r.value.lines, LAMBDA l : l.line = "Shortcut"),
                                SelectSeq(r.value.lines, LAMBDA l : l.line = "Comment")))
        read(content) ==
            IF ~content.ok
            THEN [state |-> state, used |-> 0,
                  result |-> Err([msg |-> "Failed to read config file"])]
            ELSE parsed(parse_config(content.value))
    IN read(Read(fs, path))

\* save_config storing the configuration as the caller sent it
save_config_keeping_flag(fs, cfg, state) ==
    LET content == serialize_config(cfg) IN
    [fs |-> write_config_atomic(fs, cfg.file_path, content),
     state |-> Some(cfg),
     result |-> Ok(<<>>)]

\* save_config(config, state): the file system and state it leaves
save_config(fs, cfg, state) ==
    LET content == serialize_config(cfg) IN
    [fs |-> write_config_atomic(fs, cfg.file_path, content),
     state |-> Some([cfg EXCEPT !.is_modified = FALSE]),
     result |-> Ok(<<>>)]

\* reload_config answering with the configuration of the state
reload_config_cached(fs, state, uuid) ==
    IF state = None
    THEN [state |-> state, used |-> 0, result |-> Err([msg |-> "No config loaded"])]
    ELSE [state |-> state, used |-> 0, result |-> Ok(state[1])]

\* reload_config(state): load_config(Some(file_path)) of the configuration
\* in the state
reload_config(fs, state, uuid) ==
    IF state = None
    THEN [state |-> state, used |-> 0, result |-> Err([msg |-> "No config loaded"])]
    ELSE load_config_from_path(fs, state[1].file_path, state, uuid)

(***************************************************************************)
(* services/validation.rs                                                   *)
(***************************************************************************)
ValidationResult_new == [is_valid |-> TRUE, errors |-> <<>>, warnings |-> <<>>]

add_error_keeping_valid(self, error) ==
    [self EXCEPT !.errors = Append(@, error)]

add_error(self, error) ==
    [self EXCEPT !.is_valid = FALSE, !.errors = Append(@, error)]

add_warning(self, warning) ==
    [self EXCEPT !.warnings = Append(@, warning)]

\* command.len() above which validate_shortcut warns
LongCommand == 500

\* validate_shortcut(shortcut)
validate_shortcut(shortcut) ==
    LET own(result, r) == IF r.ok THEN result ELSE add_error(result, r.err)
        long(result) ==
            IF Len(shortcut.command) > LongCommand
            THEN add_warning(result, [msg |-> "Command is very long (>500 chars)"])
            ELSE result
        bare(result) ==
            IF shortcut.modifiers = <<>>
            THEN add_warning(result, [msg |-> "Shortcut has no modifiers"])
            ELSE result
    IN bare(long(own(ValidationResult_new, validate(shortcut))))

\* the (modifiers, key) table of validate_config
system_shortcuts ==
    <<[mods |-> cmd, key |-> <<"s", "p", "a", "c", "e">>],
      [mods |-> cmd, key |-> <<"t", "a", "b">>],
      [mods |-> cmd, key |-> <<"q">>],
      [mods |-> cmd \o <<" ", "+", " ">> \o shift, key |-> <<"3">>],
      [mods |-> cmd \o <<" ", "+", " ">> \o shift, key |-> <<"4">>],
      [mods |-> cmd \o <<" ", "+", " ">> \o ctrl, key |-> <<"q">>]>>

\* result.add_error(e) for each e of errors, in order
RECURSIVE add_errors(_, _)
add_errors(result, errors) ==
    IF errors = <<>> THEN result
    ELSE add_errors(add_error(result, errors[1]), Tail(errors))

\* validate_config(config)
validate_config(cfg) ==
    LET v == cfg.shortcuts
        each == [i \in DOMAIN v |-> validate_shortcut(v[i])]
        own(r) == IF r.ok THEN <<>> ELSE r.err
        mods(s) == Join(s.modifiers, <<" ", "+", " ">>)
        hits(s) == SelectSeq(system_shortcuts,
                             LAMBDA sys : mods(s) = sys.mods /\ s.key = sys.key)
        conflicts(s) == [k \in DOMAIN hits(s) |->
                            [msg |-> "conflicts with system shortcut",
                             mods |-> mods(s), key |-> s.key]]
        finish(result) == [result EXCEPT !.is_valid = (result.errors = <<>>)]
        warn(result) ==
            [result EXCEPT !.warnings =
                @ \o Join([i \in DOMAIN v |-> conflicts(v[i])], <<>>)]
    IN finish(warn(add_errors(
           [ValidationResult_new EXCEPT
               !.errors = Join([i \in DOMAIN v |-> each[i].errors], <<>>),
               !.warnings = Join([i \in DOMAIN v |-> each[i].warnings], <<>>)],
           own(ConfigFile_validate(cfg)))))

\* validate_config_text(text)
validate_config_text(text) ==
    LET convert(ps) ==
            [ConfigFile_new("<text>") EXCEPT
                !.shortcuts = [i \in DOMAIN ps |->
                    Shortcut_new(i, ps[i].shortcut.modifiers, ps[i].shortcut.key,
                                 ps[i].shortcut.command, ps[i].shortcut.line_number)],
                !.is_modified = TRUE]
        extend(config_result) ==
            [ValidationResult_new EXCEPT !.errors = config_result.errors,
                                         !.warnings = config_result.warnings]
        lines(errors) == [i \in DOMAIN errors |->
                             [line |-> errors[i].line_number, error |-> errors[i].message]]
        finish(result) == [result EXCEPT !.is_valid = (result.errors = <<>>)]
        parsed(r) ==
            IF r.ok
            THEN extend(validate_config(convert(
                     SelectSeq(r.value.lines, LAMBDA l : l.line = "Shortcut"))))
            ELSE add_errors(ValidationResult_new, lines(r.err))
    IN finish(parsed(parse_config(text)))

(***************************************************************************)
(* commands/shortcuts.rs.  Each command locks ConfigState.config on entry   *)
(* and holds the guard until it returns, so a command is one step.  The     *)
(* operators give the Option<ConfigFile> the command leaves in the state    *)
(* and the Result it returns.                                               *)
(***************************************************************************)
create_shortcut_unchecked(request, state, id) ==
    IF state = None THEN [state |-> state, result |-> Err([msg |-> "No config loaded"])]
    ELSE
    LET cfg == state[1]
        line_number == IF cfg.shortcuts = <<>> THEN 1
                       ELSE cfg.shortcuts[Len(cfg.shortcuts)].line_number + 1
        shortcut == [Shortcut_new(id, request.modifiers, request.key,
                                  request.command, line_number)
                        EXCEPT !.mode = request.mode, !.comment = request.comment]
        valid == validate(shortcut)
    IN IF ~valid.ok
       THEN [state |-> state,
             result |-> Err([msg |-> "Invalid shortcut", cause |-> valid.err])]
       ELSE [state |-> Some(add_shortcut(cfg, shortcut)), result |-> Ok(shortcut)]

create_shortcut(request, state, id) ==
    IF state = None THEN [state |-> state, result |-> Err([msg |-> "No config loaded"])]
    ELSE
    LET cfg == state[1]
        line_number == IF cfg.shortcuts = <<>> THEN 1
                       ELSE cfg.shortcuts[Len(cfg.shortcuts)].line_number + 1
        shortcut == [Shortcut_new(id, request.modifiers, request.key,
                                  request.command, line_number)
                        EXCEPT !.mode = request.mode, !.comment = request.comment]
        valid == validate(shortcut)
    IN IF ~valid.ok
       THEN [state |-> state,
             result |-> Err([msg |-> "Invalid shortcut", cause |-> valid.err])]
       ELSE IF find_duplicates(cfg, shortcut) # <<>>
       THEN [state |-> state,
             result |-> Err([msg |-> "Duplicate key combination",
                             combination |-> key_combination_string(shortcut)])]
       ELSE [state |-> Some(add_shortcut(cfg, shortcut)), result |-> Ok(shortcut)]

update_shortcut_command(request, state) ==
    IF state = None THEN [state |-> state, result |-> Err([msg |-> "No config loaded"])]
    ELSE
    LET cfg == state[1]
        existing == find_shortcut(cfg, request.id)
    IN IF existing = None
       THEN [state |-> state, result |-> Err([msg |-> "Shortcut not found"])]
       ELSE
       LET updated == [Shortcut_with_id(request.id, request.modifiers, request.key,
                                        request.command, existing[1].line_number)
                          EXCEPT !.mode = request.mode, !.comment = request.comment]
           valid == validate(updated)
       IN IF ~valid.ok
          THEN [state |-> state,
                result |-> Err([msg |-> "Invalid shortcut", cause |-> valid.err])]
          ELSE IF find_duplicates(cfg, updated) # <<>>
          THEN [state |-> state,
                result |-> Err([msg |-> "Duplicate key combination",
                                combination |-> key_combination_string(updated)])]
          ELSE [state |-> Some(update_shortcut(cfg, updated).config),
                result |-> Ok(updated)]

delete_shortcut(id, state) ==
    IF state = None THEN [state |-> state, result |-> Err([msg |-> "No config loaded"])]
    ELSE
    LET removal == remove_shortcut(state[1], id)
    IN IF removal.removed = None
       THEN [state |-> state, result |-> Err([msg |-> "Shortcut not found"])]
       ELSE [state |-> Some(removal.config), result |-> Ok(<<>>)]

(***************************************************************************)
(* SpecShortcut: the operations of Shortcut and ConfigFile applied to       *)
(* shortcuts drawn from a bounded pool.                                     *)
(***************************************************************************)
MaxIds == 2         \* ids the drawn shortcuts carry
MaxShortcuts == 2   \* entries added to the config under test

PoolModifiers == {<<cmd, shift>>, <<shift, cmd>>, <<cmd>>}
PoolKeys == {<<"f">>, <<"k">>}
PoolModes == {None, Some(<<"m">>)}

ShortcutPool ==
    {[Shortcut_new(i, m, k, <<"x">>, 1) EXCEPT !.mode = md] :
        i \in 1..MaxIds, m \in PoolModifiers, k \in PoolKeys, md \in PoolModes}

InitShortcut ==
    /\ config = Some(ConfigFile_new("/test/path"))
    /\ nextId = MaxIds + 1
    /\ lastCmd = [op |-> "none"]
    /\ candidate \in {s \in ShortcutPool : s.id = 1}
    /\ other \in ShortcutPool
    /\ DiskUnused
    /\ ExecUnused

\* config.add_shortcut(s) for s the candidate, the other shortcut, or a
\* clone of one of them under a fresh id
ShAddShortcut ==
    /\ Len(config[1].shortcuts) < MaxShortcuts
    /\ \E s \in {candidate, other,
                 [candidate EXCEPT !.id = nextId], [other EXCEPT !.id = nextId]} :
          /\ config' = Some(add_shortcut(config[1], s))
          /\ lastCmd' = [op |-> "add_shortcut", shortcut |-> s,
                         before |-> config[1]]
    /\ nextId' = nextId + 1
    /\ UNCHANGED <<candidate, other>>
    /\ UNCHANGED diskVars
    /\ UNCHANGED execVars

ShFindDuplicates ==
    /\ lastCmd' = [op |-> "find_duplicates",
                   result |-> find_duplicates(config[1], candidate),
                   justAdded |-> (lastCmd.op = "add_shortcut"
                                    /\ lastCmd.shortcut = candidate),
                   before |-> IF lastCmd.op = "add_shortcut"
                              THEN lastCmd.before ELSE config[1]]
    /\ UNCHANGED <<config, nextId, candidate, other>>
    /\ UNCHANGED diskVars
    /\ UNCHANGED execVars

ShHasSameCombination ==
    /\ lastCmd' = [op |-> "has_same_combination",
                   ab |-> has_same_combination(candidate, other),
                   ba |-> has_same_combination(other, candidate)]
    /\ UNCHANGED <<config, nextId, candidate, other>>
    /\ UNCHANGED diskVars
    /\ UNCHANGED execVars

ShKeyCombinationString ==
    /\ lastCmd' = [op |-> "key_combination_string",
                   result |-> key_combination_string(candidate),
                   resultOther |-> key_combination_string(other)]
    /\ UNCHANGED <<config, nextId, candidate, other>>
    /\ UNCHANGED diskVars
    /\ UNCHANGED execVars

NextShortcut ==
    \/ ShAddShortcut
    \/ ShFindDuplicates
    \/ ShHasSameCombination
    \/ ShKeyCombinationString

SpecShortcut == InitShortcut /\ [][NextShortcut]_vars

(***************************************************************************)
(* Properties of the Shortcut and ConfigFile operations                     *)
(***************************************************************************)
\* the multiset of a modifier list: what is left of it once order is ignored
ModBag(mods) ==
    [m \in {mods[i] : i \in DOMAIN mods} |->
        Cardinality({i \in DOMAIN mods : mods[i] = m})]

SameCombination(a, b) ==
    /\ ModBag(a.modifiers) = ModBag(b.modifiers)
    /\ a.key = b.key
    /\ a.mode = b.mode

Ascending(v) == \A i \in 1..(Len(v) - 1) : StrLeq(v[i], v[i + 1])

\* the orderings of a modifier list (lists of the same length and multiset)
Orderings(mods) ==
    {p \in [1..Len(mods) -> {mods[i] : i \in DOMAIN mods}] :
        ModBag(p) = ModBag(mods)}

\* C8: find_duplicates(c) returns, in config order, exactly the entries whose
\* id differs from c.id and whose (modifiers as a multiset, key, mode) equal
\* c's; none of them has c's id; and right after add_shortcut(c) on a config
\* with no entry of c's combination it returns nothing.
C8_FindDuplicatesExact ==
    lastCmd.op = "find_duplicates" =>
        /\ lastCmd.result =
              SelectSeq(config[1].shortcuts,
                        LAMBDA s : s.id # candidate.id /\ SameCombination(s, candidate))
        /\ \A i \in DOMAIN lastCmd.result : lastCmd.result[i].id # candidate.id
        /\ (/\ lastCmd.justAdded
            /\ \A i \in DOMAIN lastCmd.before.shortcuts :
                  ~SameCombination(lastCmd.before.shortcuts[i], candidate))
           => lastCmd.result = <<>>

\* the candidate was added to a config holding another entry of a different
\* combination, and find_duplicates(candidate) was then called
C8_Witness ==
    /\ lastCmd.op = "find_duplicates"
    /\ lastCmd.justAdded
    /\ Len(lastCmd.before.shortcuts) = 1
    /\ ~SameCombination(lastCmd.before.shortcuts[1], candidate)
    /\ lastCmd.result = <<>>

\* C9: has_same_combination is symmetric, and true exactly when the keys are
\* equal, the modifier lists are equal up to order and the modes are equal.
C9_SameCombinationSymmetric ==
    lastCmd.op = "has_same_combination" =>
        /\ lastCmd.ab = lastCmd.ba
        /\ lastCmd.ab = SameCombination(candidate, other)
        /\ (candidate.mode # other.mode => ~lastCmd.ab)

\* same modifiers in another order, same key, different mode: not duplicates
C9_Witness ==
    /\ lastCmd.op = "has_same_combination"
    /\ candidate.modifiers = <<cmd, shift>>
    /\ other.modifiers = <<shift, cmd>>
    /\ candidate.key = other.key
    /\ candidate.mode # other.mode
    /\ ~lastCmd.ab

\* C10: key_combination_string gives the same string for every ordering of
\* the same modifiers: the ascending ordering joined by " + ", then " - " and
\* the key; [shift, cmd] and key k give "cmd + shift - k".
C10_KeyCombinationOrderFree ==
    lastCmd.op = "key_combination_string" =>
        /\ (candidate.modifiers # <<>> =>
              \E p \in Orderings(candidate.modifiers) :
                  /\ Ascending(p)
                  /\ lastCmd.result =
                        Join(p, <<" ", "+", " ">>) \o <<" ", "-", " ">> \o candidate.key)
        /\ (/\ ModBag(candidate.modifiers) = ModBag(other.modifiers)
            /\ candidate.key = other.key)
           => lastCmd.result = lastCmd.resultOther
        /\ (candidate.modifiers = <<shift, cmd>> /\ candidate.key = <<"k">>)
           => lastCmd.result =
                 <<"c", "m", "d", " ", "+", " ", "s", "h", "i", "f", "t",
                   " ", "-", " ", "k">>

C10_Witness ==
    /\ lastCmd.op = "key_combination_string"
    /\ candidate.modifiers = <<shift, cmd>>
    /\ other.modifiers = <<cmd, shift>>
    /\ candidate.key = <<"k">>
    /\ lastCmd.result = lastCmd.resultOther

(***************************************************************************)
(* SpecCrud: create_shortcut, update_shortcut and delete_shortcut on a      *)
(* configuration loaded from a file without duplicate combinations.         *)
(***************************************************************************)
MaxLoaded == 2      \* shortcut lines of the loaded file
MaxCrudIds == 3     \* ids handed out in all (loaded and created)

\* what load_config_from_path builds from n parsed shortcut lines: fresh ids,
\* mode and comment None, the line numbers of the file, is_modified false
LoadedShortcuts ==
    {Shortcut_new(i, m[1], m[2], <<"x">>, i) :
        i \in 1..MaxLoaded,
        m \in {<<<<cmd, shift>>, <<"f">>>>, <<<<shift, cmd>>, <<"f">>>>,
               <<<<cmd, shift>>, <<"k">>>>}}

LoadedConfigs ==
    {[ConfigFile_new("skhdrc") EXCEPT !.shortcuts = v] :
        v \in UNION {[1..n -> LoadedShortcuts] : n \in 0..MaxLoaded}}

NoDuplicatePair(cfg) ==
    \A i, j \in DOMAIN cfg.shortcuts :
        (cfg.shortcuts[i].id # cfg.shortcuts[j].id)
            => ~SameCombination(cfg.shortcuts[i], cfg.shortcuts[j])

\* the requests tried: a combination, the same with the modifiers in another
\* order, with another mode, with another key, and with an empty command
Requests ==
    {[modifiers |-> <<cmd, shift>>, key |-> <<"f">>, command |-> <<"x">>,
      mode |-> None, comment |-> None],
     [modifiers |-> <<shift, cmd>>, key |-> <<"f">>, command |-> <<"x">>,
      mode |-> None, comment |-> None],
     [modifiers |-> <<cmd, shift>>, key |-> <<"f">>, command |-> <<"x">>,
      mode |-> Some(<<"m">>), comment |-> None],
     [modifiers |-> <<cmd, shift>>, key |-> <<"k">>, command |-> <<"x">>,
      mode |-> None, comment |-> None],
     [modifiers |-> <<cmd, shift>>, key |-> <<"f">>, command |-> <<>>,
      mode |-> None, comment |-> None]}

UpdateRequests ==
    {[id |-> id, modifiers |-> r.modifiers, key |-> r.key, command |-> r.command,
      mode |-> r.mode, comment |-> r.comment] : id \in 1..MaxCrudIds, r \in Requests}

InitCrud ==
    /\ \E cfg \in LoadedConfigs :
          /\ \A i \in DOMAIN cfg.shortcuts :
                cfg.shortcuts[i].id = i /\ cfg.shortcuts[i].line_number = i
          /\ NoDuplicatePair(cfg)
          /\ config = Some(cfg)
          /\ nextId = Len(cfg.shortcuts) + 1
    /\ lastCmd = [op |-> "none"]
    /\ candidate = None
    /\ other = None
    /\ DiskUnused
    /\ ExecUnused

CreateShortcut ==
    /\ nextId <= MaxCrudIds
    /\ \E request \in Requests :
          LET out == create_shortcut(request, config, nextId) IN
          /\ config' = out.state
          /\ lastCmd' = [op |-> "create_shortcut", request |-> request,
                         result |-> out.result]
    /\ nextId' = nextId + 1
    /\ UNCHANGED <<candidate, other>>
    /\ UNCHANGED diskVars
    /\ UNCHANGED execVars

UpdateShortcut ==
    /\ \E request \in UpdateRequests :
          LET out == update_shortcut_command(request, config) IN
          /\ config' = out.state
          /\ lastCmd' = [op |-> "update_shortcut", request |-> request,
                         result |-> out.result]
    /\ UNCHANGED <<nextId, candidate, other>>
    /\ UNCHANGED diskVars
    /\ UNCHANGED execVars

DeleteShortcut ==
    /\ \E id \in 1..MaxCrudIds :
          LET out == delete_shortcut(id, config) IN
          /\ config' = out.state
          /\ lastCmd' = [op |-> "delete_shortcut", request |-> [id |-> id],
                         result |-> out.result]
    /\ UNCHANGED <<nextId, candidate, other>>
    /\ UNCHANGED diskVars
    /\ UNCHANGED execVars

NextCrud ==
    \/ CreateShortcut
    \/ UpdateShortcut
    \/ DeleteShortcut

SpecCrud == InitCrud /\ [][NextCrud]_vars

\* the request, carried out on cfg, would leave two entries with different
\* ids and the same combination
WouldCollide(cfg, op, request) ==
    \/ /\ op = "create_shortcut"
       /\ \E i \in DOMAIN cfg.shortcuts : SameCombination(cfg.shortcuts[i], request)
    \/ /\ op = "update_shortcut"
       /\ \E i \in DOMAIN cfg.shortcuts : cfg.shortcuts[i].id = request.id
       /\ \E i \in DOMAIN cfg.shortcuts :
             /\ cfg.shortcuts[i].id # request.id
             /\ SameCombination(cfg.shortcuts[i], request)

RequestValid(request) ==
    validate(Shortcut_new(0, request.modifiers, request.key, request.command, 0)).ok

NoDuplicateInState == config # None => NoDuplicatePair(config[1])

\* C7 as stated: the configuration never holds two shortcuts with different
\* ids and the same combination, and every create or update that would
\* produce such a pair returns the 'Duplicate key combination' error and
\* leaves the configuration unchanged.
C7_AsStated ==
    /\ []NoDuplicateInState
    /\ [][(lastCmd'.op \in {"create_shortcut", "update_shortcut"}
            /\ WouldCollide(config[1], lastCmd'.op, lastCmd'.request))
          => /\ config' = config
             /\ ~lastCmd'.result.ok
             /\ lastCmd'.result.err.msg = "Duplicate key combination"]_vars

\* C7 (amended): the configuration never holds two shortcuts with different
\* ids and the same combination, and every create or update that would
\* produce such a pair leaves the configuration unchanged and returns an
\* error: 'Duplicate key combination' when the request passes
\* Shortcut::validate, 'Invalid shortcut' when it does not.
C7_NoSilentCollision ==
    /\ []NoDuplicateInState
    /\ [][(lastCmd'.op \in {"create_shortcut", "update_shortcut"}
            /\ WouldCollide(config[1], lastCmd'.op, lastCmd'.request))
          => /\ config' = config
             /\ ~lastCmd'.result.ok
             /\ lastCmd'.result.err.msg =
                   IF RequestValid(lastCmd'.request)
                   THEN "Duplicate key combination" ELSE "Invalid shortcut"]_vars

\* an update was refused because its modifiers, in another order, are those
\* of another entry with the same key and mode
C7_Witness ==
    /\ lastCmd.op = "update_shortcut"
    /\ ~lastCmd.result.ok
    /\ lastCmd.result.err.msg = "Duplicate key combination"
    /\ lastCmd.request.modifiers = <<shift, cmd>>
    /\ \E i \in DOMAIN config[1].shortcuts :
          /\ config[1].shortcuts[i].id # lastCmd.request.id
          /\ config[1].shortcuts[i].modifiers = <<cmd, shift>>
    /\ Len(config[1].shortcuts) = 2

(***************************************************************************)
(* SpecAtomicWrite: calls of write_config_atomic on one target, with an     *)
(* I/O failure or a crash of the process possible at every step.            *)
(***************************************************************************)
MaxContent == 2     \* bytes of a content written
MaxTempNames == 1   \* temp names NamedTempFile can draw

Target == Path("skhd", "skhdrc")

WriteContents == UNION {[1..n -> {65, 66}] : n \in 0..MaxContent}

ModelUnused ==
    /\ config = None
    /\ nextId = 1
    /\ candidate = None
    /\ other = None

InitAtomicWrite ==
    /\ files \in {EmptyFs} \cup {Put(EmptyFs, Target, c) : c \in WriteContents}
    /\ writer = WriterIdle
    /\ clock = 0
    /\ backups = <<>>
    /\ lastCmd = [op |-> "none"]
    /\ ModelUnused
    /\ ExecUnused

InProgress(w) ==
    w.pc \in {"create_dir_all", "new_in", "write_all", "sync_all", "persist"}

AwBegin ==
    /\ ~InProgress(writer)
    /\ \E content \in WriteContents : writer' = write_begin(files, Target, content)
    /\ UNCHANGED <<files, clock, backups, lastCmd>>
    /\ UNCHANGED modelVars
    /\ UNCHANGED execVars

AwCreateDirAll ==
    /\ writer.pc = "create_dir_all"
    /\ writer' = [writer EXCEPT !.pc = "new_in"]
    /\ UNCHANGED <<files, clock, backups, lastCmd>>
    /\ UNCHANGED modelVars
    /\ UNCHANGED execVars

AwCreateTemp ==
    /\ writer.pc = "new_in"
    /\ \E n \in 1..MaxTempNames :
          /\ ~Exists(files, TempPath(writer.path.dir, n))
          /\ files' = create_temp(files, writer, n).fs
          /\ writer' = create_temp(files, writer, n).w
    /\ UNCHANGED <<clock, backups, lastCmd>>
    /\ UNCHANGED modelVars
    /\ UNCHANGED execVars

AwWriteAll ==
    /\ writer.pc = "write_all"
    /\ files' = write_chunk(files, writer).fs
    /\ writer' = write_chunk(files, writer).w
    /\ UNCHANGED <<clock, backups, lastCmd>>
    /\ UNCHANGED modelVars
    /\ UNCHANGED execVars

AwSyncAll ==
    /\ writer.pc = "sync_all"
    /\ writer' = [writer EXCEPT !.pc = "persist"]
    /\ UNCHANGED <<files, clock, backups, lastCmd>>
    /\ UNCHANGED modelVars
    /\ UNCHANGED execVars

AwPersist ==
    /\ writer.pc = "persist"
    /\ files' = persist(files, writer).fs
    /\ writer' = persist(files, writer).w
    /\ UNCHANGED <<clock, backups, lastCmd>>
    /\ UNCHANGED modelVars
    /\ UNCHANGED execVars

\* the current call returns an io::Error
AwFail ==
    /\ InProgress(writer)
    /\ files' = write_fail(files, writer).fs
    /\ writer' = write_fail(files, writer).w
    /\ UNCHANGED <<clock, backups, lastCmd>>
    /\ UNCHANGED modelVars
    /\ UNCHANGED execVars

\* the process dies: nothing is cleaned up
AwCrash ==
    /\ InProgress(writer)
    /\ writer' = [writer EXCEPT !.pc = "crashed"]
    /\ UNCHANGED <<files, clock, backups, lastCmd>>
    /\ UNCHANGED modelVars
    /\ UNCHANGED execVars

NextAtomicWrite ==
    \/ AwBegin
    \/ AwCreateDirAll
    \/ AwCreateTemp
    \/ AwWriteAll
    \/ AwSyncAll
    \/ AwPersist
    \/ AwFail
    \/ AwCrash

SpecAtomicWrite == InitAtomicWrite /\ [][NextAtomicWrite]_vars

\* C2: during and after a call of write_config_atomic(path, content), also
\* after a failure or a crash at any step, a reader of path finds its prior
\* content (or no file, if there was none) or exactly content; before the
\* rename it finds the prior content; the temp file has another name.
C2_NoPartialTarget ==
    writer.pc # "idle" =>
        LET cur == Content(files, writer.path) IN
        /\ cur \in {writer.prior, Some(writer.content)}
        /\ (writer.pc # "done" => cur = writer.prior)
        /\ (writer.temp # None => writer.temp[1] # writer.path)

\* the process died while the temp file held a strict, non-empty prefix of
\* the content, and the target still holds its different prior content
C2_Witness ==
    /\ writer.pc = "crashed"
    /\ writer.temp # None
    /\ Exists(files, writer.temp[1])
    /\ Len(files[writer.temp[1]]) = 1
    /\ Len(writer.content) = 2
    /\ writer.prior # None
    /\ writer.prior # Some(writer.content)
    /\ Content(files, writer.path) = writer.prior

(***************************************************************************)
(* SpecBackup: create_backup of a source file of arbitrary bytes,           *)
(* restore_backup to a target, a caller that overwrites the record's        *)
(* checksum, and a backup file whose bytes change on disk.  The file        *)
(* operations themselves succeed here; SpecAtomicWrite covers their         *)
(* failures.                                                                *)
(***************************************************************************)
MaxBytes == 2       \* bytes of the source file
MaxBackups == 1     \* Backup records the caller holds
MaxClock == 1       \* seconds that pass

Source == Path("skhd", "test.conf")
Restored == Path("skhd", "restored.conf")

\* 'A', the two bytes of U+00E9 (0xC3 0xA9), which are ill-formed apart
ByteStrings == UNION {[1..n -> {65, 195, 169}] : n \in 0..MaxBytes}

InitBackup ==
    /\ \E content \in ByteStrings, old \in {None, Some(<<66>>)} :
          files = IF old = None THEN Put(EmptyFs, Source, content)
                  ELSE Put(Put(EmptyFs, Source, content), Restored, old[1])
    /\ writer = WriterIdle
    /\ clock = 0
    /\ backups = <<>>
    /\ lastCmd = [op |-> "none"]
    /\ ModelUnused
    /\ ExecUnused

BkCreateBackup ==
    /\ Len(backups) < MaxBackups
    /\ LET out == create_backup(files, Source, clock) IN
          /\ files' = out.fs
          /\ backups' = IF out.result.ok THEN Append(backups, out.result.value)
                        ELSE backups
          /\ lastCmd' = [op |-> "create_backup", content |-> files[Source],
                         result |-> out.result]
    /\ UNCHANGED <<writer, clock>>
    /\ UNCHANGED modelVars
    /\ UNCHANGED execVars

BkRestoreBackup ==
    /\ \E i \in DOMAIN backups, target \in {Source, Restored} :
          LET out == restore_backup(files, backups[i], Some(target)) IN
          /\ files' = out.fs
          /\ lastCmd' = [op |-> "restore_backup", backup |-> backups[i],
                         target |-> target, result |-> out.result]
    /\ UNCHANGED <<writer, clock, backups>>
    /\ UNCHANGED modelVars
    /\ UNCHANGED execVars

\* backup.checksum = "invalid_checksum".to_string()
BkCorruptChecksum ==
    /\ \E i \in DOMAIN backups :
          /\ backups[i].checksum # InvalidChecksum
          /\ backups' = [backups EXCEPT ![i].checksum = InvalidChecksum]
    /\ lastCmd' = [op |-> "corrupt_checksum"]
    /\ UNCHANGED <<files, writer, clock>>
    /\ UNCHANGED modelVars
    /\ UNCHANGED execVars

\* the bytes of a backup file change on disk
BkTamperFile ==
    /\ \E i \in DOMAIN backups, bytes \in {<<>>, <<65>>} :
          /\ Exists(files, backups[i].file_path)
          /\ files[backups[i].file_path] # bytes
          /\ files' = Put(files, backups[i].file_path, bytes)
    /\ lastCmd' = [op |-> "tamper"]
    /\ UNCHANGED <<writer, clock, backups>>
    /\ UNCHANGED modelVars
    /\ UNCHANGED execVars

BkTick ==
    /\ clock < MaxClock
    /\ clock' = clock + 1
    /\ UNCHANGED <<files, writer, backups, lastCmd>>
    /\ UNCHANGED modelVars
    /\ UNCHANGED execVars

NextBackup ==
    \/ BkCreateBackup
    \/ BkRestoreBackup
    \/ BkCorruptChecksum
    \/ BkTamperFile
    \/ BkTick

SpecBackup == InitBackup /\ [][NextBackup]_vars

\* C3: a restore_backup whose backup file now hashes to something other than
\* backup.checksum returns an error and writes nothing: the target, and
\* every other file, is as it was.
C3_MismatchLeavesTarget ==
    [][(/\ lastCmd'.op = "restore_backup"
        /\ Exists(files, lastCmd'.backup.file_path)
        /\ Sha256(files[lastCmd'.backup.file_path]) # lastCmd'.backup.checksum)
       => /\ ~lastCmd'.result.ok
          /\ Content(files', lastCmd'.target) = Content(files, lastCmd'.target)
          /\ files' = files]_vars

\* a restore onto an existing target was refused for a checksum mismatch
C3_Witness ==
    /\ lastCmd.op = "restore_backup"
    /\ ~lastCmd.result.ok
    /\ lastCmd.result.err.msg = "Backup checksum mismatch - file may be corrupted"
    /\ lastCmd.target = Restored
    /\ Content(files, Restored) = Some(<<66>>)
    /\ Exists(files, lastCmd.backup.file_path)

\* C4 as stated: for every source content, any sequence of bytes,
\* create_backup followed by restore_backup of that backup succeeds and
\* leaves the target with the bytes the source had at backup time.
C4_AsStated ==
    [][(/\ lastCmd.op = "create_backup"
        /\ lastCmd.result.ok
        /\ lastCmd'.op = "restore_backup"
        /\ lastCmd'.backup = lastCmd.result.value)
       => /\ lastCmd'.result.ok
          /\ Content(files', lastCmd'.target) = Some(lastCmd.content)]_vars

(***************************************************************************)
(* SpecRoundTrip: a configuration file of a few lines, loaded with          *)
(* load_config_from_path and saved with save_config (serialize_config and   *)
(* write_config_atomic), again and again.                                   *)
(***************************************************************************)
MaxLines == 3       \* lines of the file at the start
MaxSaves == 2       \* save_config calls
MaxUuids == 6       \* ids Shortcut::new has generated before a load

\* lines of each kind: shortcuts (modifiers out of order, no blanks, no
\* modifiers, a command with ':'), comments (one without text), an empty
\* line, a line of no shape, a shortcut without key and one without command
SourceLines ==
    { shift \o <<" ", "+", " ">> \o cmd \o <<" ", "-", " ", "k", " ", ":", " ", "x">>,
      <<"-", "k", ":", "a", ":", "b", " ">>,
      <<"#", " ", "c">>,
      <<"#", "#", "c", " ">>,
      <<"#">>,
      <<>>,
      <<"g", "a", "r", "b", "a", "g", "e">>,
      cmd \o <<" ", "-", " ", ":", " ", "x">>,
      cmd \o <<" ", "-", " ", "k", " ", ":">> }

\* the file holds a text of at most MaxLines lines, the last one ended by a
\* newline or not
InitRoundTrip ==
    /\ \E n \in 0..MaxLines :
       \E v \in [1..n -> SourceLines], end \in {<<>>, <<"\n">>} :
          LET text == Join(v, <<"\n">>) \o end IN
          /\ files = Put(EmptyFs, Target, text)
          /\ lastCmd = [op |-> "none", source |-> text, saves |-> 0]
    /\ writer = WriterIdle
    /\ clock = 0
    /\ backups = <<>>
    /\ ModelUnused
    /\ ExecUnused

RtLoadConfig ==
    /\ nextId <= MaxUuids
    /\ LET returns(out, parsed) ==
              /\ config' = out.state
              /\ nextId' = nextId + out.used
              /\ lastCmd' = [op |-> "load_config", source |-> lastCmd.source,
                             saves |-> lastCmd.saves, text |-> files[Target],
                             parsed |-> parsed, result |-> out.result]
       IN returns(load_config_from_path(files, Target, config, nextId),
                  parse_config(files[Target]))
    /\ UNCHANGED <<candidate, other>>
    /\ UNCHANGED diskVars
    /\ UNCHANGED execVars

RtSaveConfig ==
    /\ config # None
    /\ lastCmd.saves < MaxSaves
    /\ LET returns(out) ==
              /\ files' = out.fs
              /\ config' = out.state
              /\ lastCmd' = [op |-> "save_config", source |-> lastCmd.source,
                             saves |-> lastCmd.saves + 1, replaced |-> files[Target],
                             written |-> out.fs[Target],
                             reloaded |-> (lastCmd.op = "load_config"),
                             result |-> out.result]
       IN returns(save_config(files, config[1], config))
    /\ UNCHANGED <<nextId, candidate, other>>
    /\ UNCHANGED <<writer, clock, backups>>
    /\ UNCHANGED execVars

NextRoundTrip ==
    \/ RtLoadConfig
    \/ RtSaveConfig

SpecRoundTrip == InitRoundTrip /\ [][NextRoundTrip]_vars

\* lines of the text that have none of the three shapes
MalformedLines(text) ==
    LET lines == config_file_lines(text) IN
    {i \in DOMAIN lines : line_rule(lines[i]).rule = "none"}

\* lines of the text that are shortcuts with a key and a command
ValidShortcutLines(text) ==
    LET lines == config_file_lines(text) IN
    {i \in DOMAIN lines :
        LET pair == line_rule(lines[i]) IN
        /\ pair.rule = "shortcut"
        /\ pair.key # <<>>
        /\ Trim(pair.command) # <<>>}

\* C1: once an accepted text T has been loaded and saved (S1), S1 is
\* accepted by parse_config and loads, and every later save writes the very
\* bytes it replaces (S2 = S1).
C1_RoundTripIdempotent ==
    /\ (lastCmd.op = "load_config" /\ lastCmd.saves >= 1) =>
          /\ lastCmd.parsed.ok
          /\ lastCmd.result.ok
    /\ (lastCmd.op = "save_config" /\ lastCmd.saves >= 2) =>
          lastCmd.written = lastCmd.replaced

\* the second save after a reload, of a file whose first save changed it
\* (modifiers reordered, comments moved to the head)
C1_Witness ==
    /\ lastCmd.op = "save_config"
    /\ lastCmd.saves = 2
    /\ lastCmd.reloaded
    /\ lastCmd.written # lastCmd.source
    /\ Len(config[1].shortcuts) >= 2
    /\ Len(config[1].global_comments) >= 1
    /\ \E i \in DOMAIN config[1].shortcuts : Len(config[1].shortcuts[i].modifiers) = 2

\* C5 as stated: a text with N lines of no shape gives exactly N
\* ParseErrors, one for each such line, with that line's number.
C5_AsStated ==
    lastCmd.op = "load_config" =>
        LET bad == MalformedLines(lastCmd.text) IN
        bad # {} =>
            /\ ~lastCmd.parsed.ok
            /\ Len(lastCmd.parsed.err) = Cardinality(bad)
            /\ {lastCmd.parsed.err[i].line_number : i \in DOMAIN lastCmd.parsed.err} = bad

\* C6 as stated: with a malformed line among valid shortcut lines, the
\* caller gets the error and, with it, the shortcuts of the valid lines.
C6_AsStated ==
    (/\ lastCmd.op = "load_config"
     /\ MalformedLines(lastCmd.text) # {}
     /\ ValidShortcutLines(lastCmd.text) # {})
    => /\ "err" \in DOMAIN lastCmd.parsed
       /\ "value" \in DOMAIN lastCmd.parsed
       /\ Len(SelectSeq(lastCmd.parsed.value.lines, LAMBDA l : l.line = "Shortcut"))
              = Cardinality(ValidShortcutLines(lastCmd.text))

\* the comment and shortcut lines of a text in their order, each by its
\* content: the comment's text, the shortcut's modifiers (sorted), key and
\* command
UserLines(text) ==
    LET content(l) ==
            IF l.line = "Comment" THEN [line |-> "Comment", text |-> l.text]
            ELSE [line |-> "Shortcut",
                  modifiers |-> SortStrings(l.shortcut.modifiers),
                  key |-> l.shortcut.key, command |-> l.shortcut.command]
        kept(lines) == SelectSeq(lines, LAMBDA l : l.line # "Empty")
        of(parsed) ==
            IF parsed.ok
            THEN [i \in DOMAIN kept(parsed.value.lines) |-> content(kept(parsed.value.lines)[i])]
            ELSE <<>>
    IN of(parse_config(text))

\* C13 as stated: after a load and a save without edits, the comment lines
\* and shortcut lines of the source file stand in the saved file in the
\* same relative order.
C13_AsStated ==
    (lastCmd.op = "save_config" /\ lastCmd.saves = 1)
    => UserLines(lastCmd.written) = UserLines(lastCmd.source)

(***************************************************************************)
(* SpecCanonical: the load and save steps of SpecRoundTrip on a file made   *)
(* only of shortcut lines in the form serialize_config writes them.         *)
(***************************************************************************)
MaxCanonical == 3   \* lines of the canonical file

OpenHome == <<"o", "p", "e", "n", " ", "~">>

\* 'cmd + shift - f : open ~', a line without modifiers, one modifier with
\* a command holding ':' and blanks, three modifiers, a modifier twice
CanonicalLines ==
    { cmd \o <<" ", "+", " ">> \o shift \o <<" ", "-", " ", "f", " ", ":", " ">> \o OpenHome,
      <<"-", " ", "k", " ", ":", " ", "x">>,
      alt \o <<" ", "-", " ", "k", " ", ":", " ", "a", ":", " ", " ", "b">>,
      alt \o <<" ", "+", " ">> \o cmd \o <<" ", "+", " ">> \o fn
          \o <<" ", "-", " ", "f", " ", ":", " ", "x">>,
      cmd \o <<" ", "+", " ">> \o cmd \o <<" ", "-", " ", "k", " ", ":", " ", "x">> }

\* every line is followed by its newline
InitCanonical ==
    /\ \E n \in 0..MaxCanonical :
       \E v \in [1..n -> CanonicalLines] :
          LET text == Join([i \in 1..n |-> v[i] \o <<"\n">>], <<>>) IN
          /\ files = Put(EmptyFs, Target, text)
          /\ lastCmd = [op |-> "none", source |-> text, saves |-> 0]
    /\ writer = WriterIdle
    /\ clock = 0
    /\ backups = <<>>
    /\ ModelUnused
    /\ ExecUnused

SpecCanonical == InitCanonical /\ [][NextRoundTrip]_vars

\* C12: a text of canonical shortcut lines loads, one shortcut for each line
\* in order, and the serialisation of the loaded configuration, which
\* save_config writes, is the text itself; 'cmd + shift - f : open ~' gives
\* modifiers [cmd, shift], key f, command 'open ~' and the same line back.
C12_CanonicalUnchanged ==
    /\ lastCmd.op = "load_config" =>
          /\ lastCmd.result.ok
          /\ serialize_config(lastCmd.result.value) = lastCmd.text
          /\ Len(lastCmd.result.value.shortcuts) = Len(config_file_lines(lastCmd.text))
          /\ \A i \in DOMAIN lastCmd.result.value.shortcuts :
                LET s == lastCmd.result.value.shortcuts[i] IN
                /\ s.line_number = i
                /\ config_file_lines(lastCmd.text)[i]
                       = cmd \o <<" ", "+", " ">> \o shift
                         \o <<" ", "-", " ", "f", " ", ":", " ">> \o OpenHome
                   => /\ s.modifiers = <<cmd, shift>>
                      /\ s.key = <<"f">>
                      /\ s.command = OpenHome
    /\ lastCmd.op = "save_config" => lastCmd.written = lastCmd.source

\* 'cmd + shift - f : open ~' alone has been loaded and saved
C12_Witness ==
    /\ lastCmd.op = "save_config"
    /\ lastCmd.source = cmd \o <<" ", "+", " ">> \o shift
                         \o <<" ", "-", " ", "f", " ", ":", " ">> \o OpenHome \o <<"\n">>
    /\ lastCmd.written = lastCmd.source
    /\ Len(config[1].shortcuts) = 1
    /\ config[1].shortcuts[1].modifiers = <<cmd, shift>>
    /\ config[1].shortcuts[1].command = OpenHome

(***************************************************************************)
(* SpecValidate: Shortcut::validate on shortcuts with every kind of defect. *)
(***************************************************************************)
meta == <<"m", "e", "t", "a">>

\* empty and blank fields, unknown and repeated modifiers
ValidatePool ==
    {Shortcut_new(1, m, k, c, 1) :
        m \in {<<>>, <<cmd>>, <<cmd, cmd>>, <<meta>>, <<cmd, shift, cmd>>,
               <<shift, cmd>>, <<cmd, cmd, meta>>, <<meta, cmd, cmd>>,
               <<fn, alt, ctrl>>},
        k \in {<<"q">>, <<" ">>, <<>>},
        c \in {<<"x">>, <<" ">>, <<>>, <<" ", "x", " ">>}}

InitValidate ==
    /\ lastCmd = [op |-> "none"]
    /\ ModelUnused
    /\ DiskUnused
    /\ ExecUnused

VaValidate ==
    /\ \E s \in ValidatePool :
          lastCmd' = [op |-> "validate", shortcut |-> s, result |-> validate(s)]
    /\ UNCHANGED modelVars
    /\ UNCHANGED diskVars
    /\ UNCHANGED execVars

NextValidate == VaValidate

SpecValidate == InitValidate /\ [][NextValidate]_vars

(***************************************************************************)
(* SpecValidateConfig: ConfigFile::validate and validate_config on          *)
(* configurations built from a few shortcuts, validate_shortcut on those    *)
(* shortcuts, validate_config_text on the text of such a configuration.     *)
(***************************************************************************)
MaxValidated == 3   \* shortcuts of the configuration under validation

\* two orders of a reserved combination, another reserved one, a repeated
\* modifier, a blank command without modifiers, a command of more than
\* LongCommand characters
ConfigPool ==
    {Shortcut_new(1, <<cmd, shift>>, <<"3">>, <<"x">>, 1),
     Shortcut_new(1, <<shift, cmd>>, <<"3">>, <<"x">>, 1),
     Shortcut_new(1, <<cmd>>, <<"q">>, <<"x">>, 1),
     Shortcut_new(1, <<cmd, cmd>>, <<"q">>, <<"x">>, 1),
     Shortcut_new(1, <<>>, <<"k">>, <<" ">>, 1),
     Shortcut_new(1, <<>>, <<"k">>, [i \in 1..(LongCommand + 1) |-> "x"], 1)}

InitValidateConfig ==
    /\ config = Some(ConfigFile_new("<text>"))
    /\ nextId = 1
    /\ lastCmd = [op |-> "none"]
    /\ candidate = None
    /\ other = None
    /\ DiskUnused
    /\ ExecUnused

\* config.add_shortcut of a shortcut on the next line
VcAddShortcut ==
    /\ Len(config[1].shortcuts) < MaxValidated
    /\ \E s \in ConfigPool :
          config' = Some(add_shortcut(config[1],
                        Shortcut_new(nextId, s.modifiers, s.key, s.command,
                                     Len(config[1].shortcuts) + 1)))
    /\ nextId' = nextId + 1
    /\ lastCmd' = [op |-> "add_shortcut"]
    /\ UNCHANGED <<candidate, other>>
    /\ UNCHANGED diskVars
    /\ UNCHANGED execVars

VcValidateShortcut ==
    /\ \E s \in ConfigPool :
          lastCmd' = [op |-> "validate_shortcut", shortcut |-> s,
                      result |-> validate_shortcut(s)]
    /\ UNCHANGED modelVars
    /\ UNCHANGED diskVars
    /\ UNCHANGED execVars

VcConfigValidate ==
    /\ lastCmd' = [op |-> "ConfigFile_validate",
                   result |-> ConfigFile_validate(config[1])]
    /\ UNCHANGED modelVars
    /\ UNCHANGED diskVars
    /\ UNCHANGED execVars

VcValidateConfig ==
    /\ lastCmd' = [op |-> "validate_config", result |-> validate_config(config[1])]
    /\ UNCHANGED modelVars
    /\ UNCHANGED diskVars
    /\ UNCHANGED execVars

\* validate_config_text on the text of the configuration, as it is or with
\* a line of no shape at its end
VcValidateConfigText ==
    /\ \E last \in {<<>>, <<"g", "a", "r", "b", "a", "g", "e", "\n">>} :
          LET text == serialize_config(config[1]) \o last IN
          lastCmd' = [op |-> "validate_config_text", text |-> text,
                      result |-> validate_config_text(text)]
    /\ UNCHANGED modelVars
    /\ UNCHANGED diskVars
    /\ UNCHANGED execVars

NextValidateConfig ==
    \/ VcAddShortcut
    \/ VcValidateShortcut
    \/ VcConfigValidate
    \/ VcValidateConfig
    \/ VcValidateConfigText

SpecValidateConfig == InitValidateConfig /\ [][NextValidateConfig]_vars

\* a string that is empty once trimmed
Blank(str) == \A i \in DOMAIN str : str[i] \in {" ", "\t", "\n", "\r"}

\* C11: Shortcut::validate is Ok exactly when command and key are not blank,
\* every modifier is one of cmd, alt, shift, ctrl, fn and no modifier
\* occurs twice; otherwise its error is that of the first failing check in
\* the order empty command, empty key, invalid modifier, duplicate modifiers.
C11_ValidateFirstFailure ==
    lastCmd.op = "validate" =>
        LET s == lastCmd.shortcut
            r == lastCmd.result
            unknown == {i \in DOMAIN s.modifiers :
                           s.modifiers[i] \notin {cmd, alt, shift, ctrl, fn}}
            twice == \E i, j \in DOMAIN s.modifiers :
                        i # j /\ s.modifiers[i] = s.modifiers[j]
        IN /\ r.ok <=> (~Blank(s.command) /\ ~Blank(s.key) /\ unknown = {} /\ ~twice)
           /\ Blank(s.command) => r = Err([msg |-> "Command cannot be empty"])
           /\ (~Blank(s.command) /\ Blank(s.key)) =>
                 r = Err([msg |-> "Key cannot be empty"])
           /\ (~Blank(s.command) /\ ~Blank(s.key) /\ unknown # {}) =>
                 /\ ~r.ok
                 /\ r.err.msg = "Invalid modifier"
                 /\ \E i \in unknown : r.err.arg = s.modifiers[i]
           /\ (~Blank(s.command) /\ ~Blank(s.key) /\ unknown = {} /\ twice) =>
                 r = Err([msg |-> "Duplicate modifiers not allowed"])

\* validate refused a shortcut whose repeated modifier is not next to its twin
C11_Witness ==
    /\ lastCmd.op = "validate"
    /\ lastCmd.shortcut.modifiers = <<cmd, shift, cmd>>
    /\ lastCmd.result = Err([msg |-> "Duplicate modifiers not allowed"])

\* C16: ConfigFile::validate is Ok exactly when every shortcut passes
\* Shortcut::validate and no two entries at different positions have the
\* same combination; otherwise its errors are one "Line N: ..." entry for
\* each invalid shortcut and one duplicate entry for each unordered pair of
\* entries with the same combination, naming the line numbers of both.
C16_ConfigValidateExact ==
    lastCmd.op = "ConfigFile_validate" =>
        LET v == config[1].shortcuts
            r == lastCmd.result
            errors == IF r.ok THEN <<>> ELSE r.err
            invalid == {i \in DOMAIN v : ~validate(v[i]).ok}
            twins == {p \in (DOMAIN v) \X (DOMAIN v) :
                         p[1] < p[2] /\ SameCombination(v[p[1]], v[p[2]])}
            lineEntries == {k \in DOMAIN errors : "line" \in DOMAIN errors[k]}
            pairEntries == {k \in DOMAIN errors : "lines" \in DOMAIN errors[k]}
        IN /\ r.ok <=> (invalid = {} /\ twins = {})
           /\ ~r.ok => errors # <<>>
           /\ Cardinality(lineEntries) = Cardinality(invalid)
           /\ \A i \in invalid : \E k \in lineEntries :
                 errors[k] = [line |-> v[i].line_number, error |-> validate(v[i]).err]
           /\ Cardinality(pairEntries) = Cardinality(twins)
           /\ \A p \in twins : \E k \in pairEntries :
                 errors[k].lines = <<v[p[1]].line_number, v[p[2]].line_number>>

\* three entries with one combination, listed in two orders: three pairs
C16_Witness ==
    /\ lastCmd.op = "ConfigFile_validate"
    /\ Len(config[1].shortcuts) = 3
    /\ \A i \in 1..3 : config[1].shortcuts[i].key = <<"3">>
    /\ config[1].shortcuts[1].modifiers # config[1].shortcuts[3].modifiers
    /\ ~lastCmd.result.ok
    /\ Len(lastCmd.result.err) = 3

\* C17: in every ValidationResult of validate_shortcut, validate_config and
\* validate_config_text, is_valid is true exactly when errors is empty,
\* whatever the warnings are.
C17_ValidIffNoErrors ==
    lastCmd.op \in {"validate_shortcut", "validate_config", "validate_config_text"} =>
        (lastCmd.result.is_valid <=> lastCmd.result.errors = <<>>)

\* a shortcut with both warnings of validate_shortcut and no error is valid
C17_Witness ==
    /\ lastCmd.op = "validate_shortcut"
    /\ Len(lastCmd.result.warnings) = 2
    /\ lastCmd.result.errors = <<>>
    /\ lastCmd.result.is_valid

\* the reserved system shortcuts, as modifiers and key
ReservedShortcuts ==
    {[modifiers |-> <<cmd>>, key |-> <<"s", "p", "a", "c", "e">>],
     [modifiers |-> <<cmd>>, key |-> <<"t", "a", "b">>],
     [modifiers |-> <<cmd>>, key |-> <<"q">>],
     [modifiers |-> <<cmd, shift>>, key |-> <<"3">>],
     [modifiers |-> <<cmd, shift>>, key |-> <<"4">>],
     [modifiers |-> <<cmd, ctrl>>, key |-> <<"q">>]}

\* C18 as stated: validate_config adds one conflict warning, and no error,
\* for each shortcut whose modifiers, in whatever order they are listed,
\* and key are those of a reserved system shortcut.
C18_AsStated ==
    lastCmd.op = "validate_config" =>
        LET v == config[1].shortcuts
            reserved == {i \in DOMAIN v : \E sys \in ReservedShortcuts :
                            /\ ModBag(v[i].modifiers) = ModBag(sys.modifiers)
                            /\ v[i].key = sys.key}
            warned == {k \in DOMAIN lastCmd.result.warnings :
                          lastCmd.result.warnings[k].msg = "conflicts with system shortcut"}
        IN /\ Cardinality(warned) = Cardinality(reserved)
           /\ \A k \in DOMAIN lastCmd.result.errors :
                 "msg" \in DOMAIN lastCmd.result.errors[k] =>
                     lastCmd.result.errors[k].msg # "conflicts with system shortcut"

(***************************************************************************)
(* SpecSession: the commands of a session on the shared ConfigState, from   *)
(* the state ConfigState::new leaves: load_config on a path the caller      *)
(* names, reload_config, save_config of a configuration the caller sends,   *)
(* create_shortcut, update_shortcut and delete_shortcut.                    *)
(***************************************************************************)
MaxSessionIds == 4  \* ids handed out in the session (loaded and created)

\* the file has two shortcut lines with an empty line between them; a
\* second file has a line of no shape
InitSession ==
    /\ config = None
    /\ nextId = 1
    /\ candidate = None
    /\ other = None
    /\ files = Put(Put(EmptyFs, Target,
                       <<"-", " ", "k", " ", ":", " ", "x", "\n", "\n",
                         "-", " ", "f", " ", ":", " ", "x", "\n">>),
                   Path("skhd", "broken"), <<"g", "a", "r", "b", "a", "g", "e">>)
    /\ writer = WriterIdle
    /\ clock = 0
    /\ backups = <<>>
    /\ lastCmd = [op |-> "none"]
    /\ ExecUnused

SeLoadConfig ==
    /\ nextId <= MaxSessionIds
    /\ \E path \in {Target, Path("skhd", "broken")} :
          LET returns(out) ==
                  /\ config' = out.state
                  /\ nextId' = nextId + out.used
                  /\ lastCmd' = [op |-> "load_config", result |-> out.result]
          IN returns(load_config_from_path(files, path, config, nextId))
    /\ UNCHANGED <<candidate, other>>
    /\ UNCHANGED diskVars
    /\ UNCHANGED execVars

SeReloadConfig ==
    /\ nextId <= MaxSessionIds
    /\ LET returns(out) ==
              /\ config' = out.state
              /\ nextId' = nextId + out.used
              /\ lastCmd' = [op |-> "reload_config", result |-> out.result,
                             unsaved |-> (config # None /\ config[1].is_modified)]
       IN returns(reload_config(files, config, nextId))
    /\ UNCHANGED <<candidate, other>>
    /\ UNCHANGED diskVars
    /\ UNCHANGED execVars

\* the caller sends the configuration of the state as it holds it, or with
\* the shortcuts listed in the opposite order; write_config_atomic writes
\* the file or returns an io::Error, and then the command returns at once
SeSaveConfig ==
    /\ config # None
    /\ \E cfg \in {config[1],
                    [config[1] EXCEPT !.shortcuts =
                        [i \in DOMAIN @ |-> @[Len(@) + 1 - i]]]} :
       \E written \in BOOLEAN :
          LET returns(out) ==
                  /\ files' = out.fs
                  /\ config' = out.state
                  /\ lastCmd' = [op |-> "save_config", result |-> out.result]
          IN returns(IF written THEN save_config(files, cfg, config)
                     ELSE [fs |-> files, state |-> config,
                           result |-> Err([msg |-> "Failed to write config"])])
    /\ UNCHANGED <<nextId, candidate, other>>
    /\ UNCHANGED <<writer, clock, backups>>
    /\ UNCHANGED execVars

\* a request for '- f : x' in the mode m, and one for 'cmd - f' without a
\* command
SeCreateShortcut ==
    /\ nextId <= MaxSessionIds
    /\ \E r \in {<<<<>>, <<"x">>, Some(<<"m">>)>>, <<<<cmd>>, <<>>, None>>} :
          LET returns(out) ==
                  /\ config' = out.state
                  /\ lastCmd' = [op |-> "create_shortcut", result |-> out.result]
          IN returns(create_shortcut([modifiers |-> r[1], key |-> <<"f">>,
                                      command |-> r[2], mode |-> r[3],
                                      comment |-> None], config, nextId))
    /\ nextId' = nextId + 1
    /\ UNCHANGED <<candidate, other>>
    /\ UNCHANGED diskVars
    /\ UNCHANGED execVars

\* a request to make the shortcut of an id 'alt - k : x'
SeUpdateShortcut ==
    /\ \E id \in 1..MaxSessionIds :
          LET returns(out) ==
                  /\ config' = out.state
                  /\ lastCmd' = [op |-> "update_shortcut", result |-> out.result]
          IN returns(update_shortcut_command(
                        [id |-> id, modifiers |-> <<alt>>, key |-> <<"k">>,
                         command |-> <<"x">>, mode |-> None, comment |-> None],
                        config))
    /\ UNCHANGED <<nextId, candidate, other>>
    /\ UNCHANGED diskVars
    /\ UNCHANGED execVars

SeDeleteShortcut ==
    /\ \E id \in 1..MaxSessionIds :
          LET returns(out) ==
                  /\ config' = out.state
                  /\ lastCmd' = [op |-> "delete_shortcut", result |-> out.result]
          IN returns(delete_shortcut(id, config))
    /\ UNCHANGED <<nextId, candidate, other>>
    /\ UNCHANGED diskVars
    /\ UNCHANGED execVars

NextSession ==
    \/ SeLoadConfig
    \/ SeReloadConfig
    \/ SeSaveConfig
    \/ SeCreateShortcut
    \/ SeUpdateShortcut
    \/ SeDeleteShortcut

SpecSession == InitSession /\ [][NextSession]_vars

C15_AsStated ==
    [][(lastCmd'.op = "create_shortcut" /\ lastCmd'.result.ok)
       => LET existing == config[1].shortcuts
              max == CHOOSE n \in {0} \cup {existing[i].line_number : i \in DOMAIN existing} :
                        \A i \in DOMAIN existing : existing[i].line_number <= n
              sorted == sort_by_line_number(config'[1].shortcuts)
          IN /\ lastCmd'.result.value.line_number = max + 1
             /\ sorted[Len(sorted)] = lastCmd'.result.value]_vars

(***************************************************************************)
(* SpecStore: the backup directory over time.  create_backup is called on   *)
(* a source file that is edited between the calls, seconds pass, and        *)
(* list_backups reads the directory.  The clock counts seconds.             *)
(***************************************************************************)
MaxStoreBackups == 2    \* create_backup calls
MaxStoreClock == 2      \* seconds that pass

InitStore ==
    /\ files = Put(EmptyFs, Source, <<65>>)
    /\ writer = WriterIdle
    /\ clock = 0
    /\ backups = <<>>
    /\ lastCmd = [op |-> "none"]
    /\ ModelUnused
    /\ ExecUnused

StCreateBackup ==
    /\ Len(backups) < MaxStoreBackups
    /\ LET returns(out) ==
              /\ files' = out.fs
              /\ backups' = IF out.result.ok THEN Append(backups, out.result.value)
                            ELSE backups
              /\ lastCmd' = [op |-> "create_backup", result |-> out.result]
       IN returns(create_backup(files, Source, clock))
    /\ UNCHANGED <<writer, clock>>
    /\ UNCHANGED modelVars
    /\ UNCHANGED execVars

\* the user's configuration file changes
StEditSource ==
    /\ files' = Put(files, Source, IF files[Source] = <<65>> THEN <<66>> ELSE <<65>>)
    /\ lastCmd' = [op |-> "edit"]
    /\ UNCHANGED <<writer, clock, backups>>
    /\ UNCHANGED modelVars
    /\ UNCHANGED execVars

StTick ==
    /\ clock < MaxStoreClock
    /\ clock' = clock + 1
    /\ UNCHANGED <<files, writer, backups, lastCmd>>
    /\ UNCHANGED modelVars
    /\ UNCHANGED execVars

\* read_dir yields the files of the directory in an order of its own; the
\* clock may move on between two entries (after the first k of them)
StListBackups ==
    /\ LET dir == {path \in DOMAIN files : path.dir = "backups"}
           n == Cardinality(dir)
       IN \E entries \in {e \in [1..n -> dir] : \A i, j \in 1..n : e[i] = e[j] => i = j},
             k \in 0..n :
             /\ (k < n => clock < MaxStoreClock)
             /\ clock' = IF k < n THEN clock + 1 ELSE clock
             /\ lastCmd' = [op |-> "list_backups",
                            result |-> list_backups(files, entries,
                                          [i \in 1..n |-> IF i <= k THEN clock
                                                          ELSE clock + 1])]
    /\ UNCHANGED <<files, writer, backups>>
    /\ UNCHANGED modelVars
    /\ UNCHANGED execVars

NextStore ==
    \/ StCreateBackup
    \/ StEditSource
    \/ StTick
    \/ StListBackups

SpecStore == InitStore /\ [][NextStore]_vars

\* C19 as stated: in the list list_backups returns, a backup that
\* create_backup made later than another stands before it.
C19_AsStated ==
    lastCmd.op = "list_backups" =>
        \A a, b \in DOMAIN backups :
            (/\ backups[a].created_at > backups[b].created_at
             /\ backups[a].file_path # backups[b].file_path)
            => \E i, j \in DOMAIN lastCmd.result.value :
                  /\ i < j
                  /\ lastCmd.result.value[i].file_path = backups[a].file_path
                  /\ lastCmd.result.value[j].file_path = backups[b].file_path

\* C20 as stated: two create_backup calls give two distinct backup files,
\* and the file of every record made so far still has the record's
\* checksum.
C20_AsStated ==
    /\ \A a, b \in DOMAIN backups :
          a # b => backups[a].file_path # backups[b].file_path
    /\ \A a \in DOMAIN backups :
          /\ Exists(files, backups[a].file_path)
          /\ Sha256(files[backups[a].file_path]) = backups[a].checksum

\* C21: a command that returns an error leaves the shared configuration as
\* it was, is_modified included; on every configuration the session
\* reaches, remove_shortcut and update_shortcut with an id no entry has
\* change nothing and return None and false.
C21_ErrorLeavesState ==
    /\ [][(~lastCmd'.result.ok) => config' = config]_vars
    /\ [](config # None =>
            \A id \in 1..(MaxSessionIds + 1) :
                find_shortcut(config[1], id) = None =>
                    /\ remove_shortcut(config[1], id)
                          = [config |-> config[1], removed |-> None]
                    /\ update_shortcut(config[1], Shortcut_with_id(id, <<alt>>, <<"k">>,
                                                                    <<"x">>, 1))
                          = [config |-> config[1], found |-> FALSE])

\* a save has failed on its write after an edit: the flag is still true
C21_Witness ==
    /\ lastCmd.op = "save_config"
    /\ ~lastCmd.result.ok
    /\ config # None
    /\ config[1].is_modified
    /\ Len(config[1].shortcuts) = 3

\* C22 as stated: every error of validate_config and validate_config_text
\* names the line number of the shortcut it is about, or the two line
\* numbers of a duplicate pair.
C22_AsStated ==
    lastCmd.op \in {"validate_config", "validate_config_text"} =>
        \A k \in DOMAIN lastCmd.result.errors :
            \/ "line" \in DOMAIN lastCmd.result.errors[k]
            \/ "lines" \in DOMAIN lastCmd.result.errors[k]

\* C23: after a successful reload_config the shared configuration has the
\* file_path it had, the shortcuts (modifiers, key, command, line number;
\* no mode, no comment) and the comments that parse_config finds in the
\* file at that path, in the file's order, and is_modified is false.
C23_ReloadIsFile ==
    (lastCmd.op = "reload_config" /\ lastCmd.result.ok) =>
        LET cfg == config[1]
            lines == parse_config(files[cfg.file_path]).value.lines
            ps == SelectSeq(lines, LAMBDA l : l.line = "Shortcut")
            pc == SelectSeq(lines, LAMBDA l : l.line = "Comment")
        IN /\ lastCmd.result.value = cfg
           /\ ~cfg.is_modified
           /\ [i \in DOMAIN cfg.shortcuts |-> [cfg.shortcuts[i] EXCEPT !.id = 0]]
                 = [i \in DOMAIN ps |->
                       [id |-> 0, modifiers |-> ps[i].shortcut.modifiers,
                        key |-> ps[i].shortcut.key, command |-> ps[i].shortcut.command,
                        line_number |-> ps[i].shortcut.line_number,
                        mode |-> None, comment |-> None]]
           /\ cfg.global_comments = [i \in DOMAIN pc |-> pc[i].text]

\* a reload has succeeded in a state that held unsaved edits
C23_Witness ==
    /\ lastCmd.op = "reload_config"
    /\ lastCmd.result.ok
    /\ lastCmd.unsaved
    /\ Len(config[1].shortcuts) = 2
    /\ ~config[1].is_modified

(***************************************************************************)
(* SpecTesting: calls of test_shortcut, execute_shortcut_command            *)
(* (commands/testing.rs) and export_config (commands/config.rs) that run    *)
(* at the same time.  A call is a task; each step of a task is an action,   *)
(* and a step that needs the ConfigState mutex waits until it is free.      *)
(* The child processes end on their own.                                    *)
(***************************************************************************)
MaxTasks == 2       \* calls in progress at the same time
MaxChildren == 2    \* child processes alive at the same time

TaskIdle == [cmd |-> "none", pc |-> "idle", shortcut_id |-> 0, pid |-> 0,
             content |-> <<>>]

\* a configuration with the shortcut 1 is loaded; the calls name the id 1 or
\* the id 2, which no shortcut has
InitTesting ==
    /\ config = Some([ConfigFile_new(Target) EXCEPT
                         !.shortcuts = <<Shortcut_new(1, <<cmd>>, <<"k">>, <<"x">>, 1)>>])
    /\ nextId = 2
    /\ candidate = None
    /\ other = None
    /\ lastCmd = [op |-> "none"]
    /\ files = EmptyFs
    /\ writer = WriterIdle
    /\ clock = 0
    /\ backups = <<>>
    /\ lock = 0
    /\ tasks = [t \in 1..MaxTasks |-> TaskIdle]
    /\ running_ids = {}
    /\ children = {}

\* test_shortcut(shortcut_id): config.lock(), the shortcut is looked up, and
\* Command::new("sh").output() starts its child and waits for it; the guard
\* config_guard lives to the end of the function
TsLock ==
    /\ lock = 0
    /\ \E t \in DOMAIN tasks, id \in 1..2 :
          /\ tasks[t].pc = "idle"
          /\ IF find_shortcut(config[1], id) = None
             THEN /\ lastCmd' = [op |-> "test_shortcut", shortcut_id |-> id,
                                 result |-> Err([msg |-> "Shortcut not found"])]
                  /\ UNCHANGED <<lock, tasks>>
             ELSE /\ lock' = t
                  /\ tasks' = [tasks EXCEPT ![t] = [TaskIdle EXCEPT
                                   !.cmd = "test_shortcut", !.pc = "output",
                                   !.shortcut_id = id]]
                  /\ UNCHANGED lastCmd
    /\ UNCHANGED <<running_ids, children>>
    /\ UNCHANGED modelVars
    /\ UNCHANGED diskVars

\* output() returns; the TestResult is built and the function returns,
\* dropping config_guard
TsOutput ==
    /\ \E t \in DOMAIN tasks, syntax_valid \in BOOLEAN :
          /\ tasks[t].cmd = "test_shortcut"
          /\ tasks[t].pc = "output"
          /\ lock' = 0
          /\ tasks' = [tasks EXCEPT ![t] = TaskIdle]
          /\ lastCmd' = [op |-> "test_shortcut",
                         shortcut_id |-> tasks[t].shortcut_id,
                         result |-> Ok([syntax_valid |-> syntax_valid,
                                        executed |-> FALSE])]
    /\ UNCHANGED <<running_ids, children>>
    /\ UNCHANGED modelVars
    /\ UNCHANGED diskVars

\* execute_shortcut_command, step 1: the shortcut is cloned under the lock
ExFind ==
    /\ lock = 0
    /\ \E t \in DOMAIN tasks, id \in 1..2 :
          /\ tasks[t].pc = "idle"
          /\ IF find_shortcut(config[1], id) = None
             THEN /\ lastCmd' = [op |-> "execute_shortcut_command",
                                 shortcut_id |-> id,
                                 result |-> Err([msg |-> "Shortcut not found"])]
                  /\ UNCHANGED tasks
             ELSE /\ tasks' = [tasks EXCEPT ![t] = [TaskIdle EXCEPT
                                   !.cmd = "execute_shortcut_command", !.pc = "guard",
                                   !.shortcut_id = id]]
                  /\ UNCHANGED lastCmd
    /\ UNCHANGED <<lock, running_ids, children>>
    /\ UNCHANGED modelVars
    /\ UNCHANGED diskVars

\* step 2, ExecutionGuard::new: ids.insert(shortcut_id), None when the id
\* is in the set
ExGuard ==
    /\ \E t \in DOMAIN tasks :
          /\ tasks[t].pc = "guard"
          /\ IF tasks[t].shortcut_id \in running_ids
             THEN /\ tasks' = [tasks EXCEPT ![t] = TaskIdle]
                  /\ lastCmd' = [op |-> "execute_shortcut_command",
                                 shortcut_id |-> tasks[t].shortcut_id,
                                 result |-> Err([msg |->
                                     "Command already executing for shortcut"])]
                  /\ UNCHANGED running_ids
             ELSE /\ running_ids' = running_ids \cup {tasks[t].shortcut_id}
                  /\ tasks' = [tasks EXCEPT ![t].pc = "spawn"]
                  /\ UNCHANGED lastCmd
    /\ UNCHANGED <<lock, children>>
    /\ UNCHANGED modelVars
    /\ UNCHANGED diskVars

\* step 4, TokioCommand::spawn: a child runs, or the error is returned and
\* _guard dropped
ExSpawn ==
    /\ \E t \in DOMAIN tasks, spawned \in BOOLEAN :
          /\ tasks[t].pc = "spawn"
          /\ IF spawned
             THEN /\ Cardinality(children) < MaxChildren
                  /\ LET pid == CHOOSE n \in 1..MaxChildren :
                                    \A c \in children : c.pid # n
                     IN /\ children' = children \cup
                                          {[shortcut_id |-> tasks[t].shortcut_id,
                                            pid |-> pid]}
                        /\ tasks' = [tasks EXCEPT ![t].pc = "wait", ![t].pid = pid]
                  /\ UNCHANGED <<running_ids, lastCmd>>
             ELSE /\ running_ids' = running_ids \ {tasks[t].shortcut_id}
                  /\ tasks' = [tasks EXCEPT ![t] = TaskIdle]
                  /\ lastCmd' = [op |-> "execute_shortcut_command",
                                 shortcut_id |-> tasks[t].shortcut_id,
                                 result |-> Err([msg |-> "Failed to spawn command"])]
                  /\ UNCHANGED children
    /\ UNCHANGED lock
    /\ UNCHANGED modelVars
    /\ UNCHANGED diskVars

\* a child process ends
ChildExit ==
    /\ \E c \in children : children' = children \ {c}
    /\ UNCHANGED <<lock, tasks, running_ids, lastCmd>>
    /\ UNCHANGED modelVars
    /\ UNCHANGED diskVars

\* step 5, wait_with_output() returns within the 30 seconds: the child has
\* ended; the result is returned and _guard dropped
ExOutput ==
    /\ \E t \in DOMAIN tasks :
          /\ tasks[t].pc = "wait"
          /\ \A c \in children : c.pid # tasks[t].pid
          /\ running_ids' = running_ids \ {tasks[t].shortcut_id}
          /\ tasks' = [tasks EXCEPT ![t] = TaskIdle]
          /\ lastCmd' = [op |-> "execute_shortcut_command",
                         shortcut_id |-> tasks[t].shortcut_id,
                         result |-> Ok([executed |-> TRUE, timed_out |-> FALSE])]
    /\ UNCHANGED <<lock, children>>
    /\ UNCHANGED modelVars
    /\ UNCHANGED diskVars

\* step 5, the timeout fires first: the wait future is dropped, and with it
\* the Child, which was not made with kill_on_drop; the process runs on
ExTimeout ==
    /\ \E t \in DOMAIN tasks :
          /\ tasks[t].pc = "wait"
          /\ \E c \in children : c.pid = tasks[t].pid
          /\ running_ids' = running_ids \ {tasks[t].shortcut_id}
          /\ tasks' = [tasks EXCEPT ![t] = TaskIdle]
          /\ lastCmd' = [op |-> "execute_shortcut_command",
                         shortcut_id |-> tasks[t].shortcut_id,
                         result |-> Ok([executed |-> TRUE, timed_out |-> TRUE])]
    /\ UNCHANGED <<lock, children>>
    /\ UNCHANGED modelVars
    /\ UNCHANGED diskVars

\* export_config, the block under the lock: the configuration is cloned,
\* the lock dropped, the text serialised and parsed
EpClone ==
    /\ lock = 0
    /\ \E t \in DOMAIN tasks :
          /\ tasks[t].pc = "idle"
          /\ tasks' = [tasks EXCEPT ![t] = [TaskIdle EXCEPT
                           !.cmd = "export_config", !.pc = "save_file",
                           !.content = serialize_config(config[1])]]
    /\ UNCHANGED <<lock, running_ids, children, lastCmd>>
    /\ UNCHANGED modelVars
    /\ UNCHANGED diskVars

\* AsyncFileDialog::save_file().await: a file is chosen, or the dialog closed
EpSaveFile ==
    /\ \E t \in DOMAIN tasks, chosen \in BOOLEAN :
          /\ tasks[t].pc = "save_file"
          /\ IF chosen
             THEN /\ tasks' = [tasks EXCEPT ![t].pc = "write"]
                  /\ UNCHANGED lastCmd
             ELSE /\ tasks' = [tasks EXCEPT ![t] = TaskIdle]
                  /\ lastCmd' = [op |-> "export_config",
                                 result |-> Err([msg |-> "Export cancelled"])]
    /\ UNCHANGED <<lock, running_ids, children>>
    /\ UNCHANGED modelVars
    /\ UNCHANGED diskVars

EpWrite ==
    /\ \E t \in DOMAIN tasks :
          /\ tasks[t].pc = "write"
          /\ files' = write_config_atomic(files, Path("skhd", "exported"),
                                          tasks[t].content)
          /\ tasks' = [tasks EXCEPT ![t] = TaskIdle]
          /\ lastCmd' = [op |-> "export_config",
                         result |-> Ok(Path("skhd", "exported"))]
    /\ UNCHANGED <<lock, running_ids, children>>
    /\ UNCHANGED <<writer, clock, backups>>
    /\ UNCHANGED modelVars

NextTesting ==
    \/ TsLock
    \/ TsOutput
    \/ ExFind
    \/ ExGuard
    \/ ExSpawn
    \/ ChildExit
    \/ ExOutput
    \/ ExTimeout
    \/ EpClone
    \/ EpSaveFile
    \/ EpWrite

SpecTesting == InitTesting /\ [][NextTesting]_vars

\* the positions at which a task is in blocking I/O, waits for a child
\* process or awaits a dialog
Blocking == {"output", "spawn", "wait", "save_file", "write"}

\* C24 as stated: no task holds the ConfigState lock while it is in
\* blocking I/O, waits for a child process or awaits a dialog.
C24_AsStated ==
    lock # 0 => tasks[lock].pc \notin Blocking

\* C25 as stated: at any time at most one command process per shortcut id
\* runs.
C25_AsStated ==
    \A c, d \in children : c.shortcut_id = d.shortcut_id => c = d

\* C26: a successful update_shortcut leaves the list with the same length;
\* at the one position that holds the request's id the shortcut has the
\* id and line number it had and the modifiers, key, command, mode and
\* comment of the request; every other shortcut, the file path and the
\* comments are as they were.
C26_UpdateFrame ==
    [][(lastCmd'.op = "update_shortcut" /\ lastCmd'.result.ok)
       => LET old == config[1].shortcuts
              new == config'[1].shortcuts
              request == lastCmd'.request
              at == {p \in DOMAIN old : old[p].id = request.id}
          IN /\ Len(new) = Len(old)
             /\ Cardinality(at) = 1
             /\ \A p \in DOMAIN old :
                   IF p \in at
                   THEN /\ new[p] = [id |-> old[p].id,
                                     line_number |-> old[p].line_number,
                                     modifiers |-> request.modifiers,
                                     key |-> request.key,
                                     command |-> request.command,
                                     mode |-> request.mode,
                                     comment |-> request.comment]
                        /\ new[p] = lastCmd'.result.value
                   ELSE new[p] = old[p]
             /\ config'[1].file_path = config[1].file_path
             /\ config'[1].global_comments = config[1].global_comments]_vars

\* the first of two shortcuts has been given a mode by an update
C26_Witness ==
    /\ lastCmd.op = "update_shortcut"
    /\ lastCmd.result.ok
    /\ Len(config[1].shortcuts) >= 2
    /\ config[1].shortcuts[1] = lastCmd.result.value
    /\ lastCmd.result.value.mode # None
    /\ lastCmd.result.value.line_number = 1

\* C27: in every state the commands reach, no two shortcuts of the shared
\* configuration have the same id, so find_shortcut, update_shortcut and
\* remove_shortcut address at most one entry.
C27_UniqueIds ==
    config # None =>
        \A i, j \in DOMAIN config[1].shortcuts :
            config[1].shortcuts[i].id = config[1].shortcuts[j].id => i = j

\* a shortcut has been created with the fourth id or a later one, next to
\* two others
C27_Witness ==
    /\ lastCmd.op = "create_shortcut"
    /\ lastCmd.result.ok
    /\ Len(config[1].shortcuts) = 3
    /\ lastCmd.result.value.id >= 4

\* C30 as stated: when a configuration without two shortcuts of the same
\* (sorted modifiers, key, mode) has been saved and the written file is
\* loaded, the loaded configuration has no two shortcuts of the same
\* combination either.
C30_AsStated ==
    [][(/\ lastCmd.op = "save_config"
        /\ lastCmd.result.ok
        /\ NoDuplicatePair(config[1])
        /\ lastCmd'.op = "load_config"
        /\ lastCmd'.result.ok)
       => NoDuplicatePair(config'[1])]_vars

(***************************************************************************)
(* commands/backups.rs.  The commands take the path of the loaded          *)
(* configuration from ConfigState under the lock, release it, and call the  *)
(* services of services/backup.rs.  The files hold bytes; the text of a     *)
(* configuration is written as its UTF-8 bytes (content.as_bytes()) and     *)
(* read back by fs::read_to_string.                                         *)
(***************************************************************************)
\* the ASCII characters the configurations of SpecRestore are written in
AsciiCode ==
    [c \in {"\n", " ", "-", ":", "f", "k", "x"} |->
        CASE c = "\n" -> 10 [] c = " " -> 32 [] c = "-" -> 45 [] c = ":" -> 58
          [] c = "f" -> 102 [] c = "k" -> 107 [] c = "x" -> 120]

\* content.as_bytes()
Utf8Bytes(text) == [i \in DOMAIN text |-> AsciiCode[text[i]]]

\* fs::read_to_string on bytes that are such characters
Utf8Text(bytes) ==
    [i \in DOMAIN bytes |-> CHOOSE c \in DOMAIN AsciiCode : AsciiCode[c] = bytes[i]]

\* the files as the text read_to_string gives, and as the bytes written
TextFs(fs) == [p \in DOMAIN fs |-> Utf8Text(fs[p])]
ByteFs(fs) == [p \in DOMAIN fs |-> Utf8Bytes(fs[p])]

\* create_backup(description = None, state) at time now
create_backup_command(fs, state, now) ==
    IF state = None THEN [fs |-> fs, result |-> Err([msg |-> "No config loaded"])]
    ELSE LET out == create_backup(fs, state[1].file_path, now) IN
         IF out.result.ok THEN out
         ELSE [fs |-> out.fs, result |-> Err([msg |-> "Failed to create backup"])]

\* restore_backup(backup_path, state): entries and now are those of the
\* list_backups call it makes
restore_backup_command(fs, backup_path, state, entries, now) ==
    IF state = None THEN [fs |-> fs, result |-> Err([msg |-> "No config loaded"])]
    ELSE
    LET target_path == state[1].file_path
        listed == list_backups(fs, entries, now)
        found == SelectSeq(listed.value, LAMBDA b : b.file_path = backup_path)
        restored(out) ==
            IF out.result.ok THEN out
            ELSE [fs |-> out.fs,
                  result |-> Err([msg |-> "Failed to restore backup",
                                  cause |-> out.result.err])]
    IN IF found = <<>> THEN [fs |-> fs, result |-> Err([msg |-> "Backup not found"])]
       ELSE restored(restore_backup(fs, found[1], Some(target_path)))

(***************************************************************************)
(* SpecRestore: a session with backups.  The configuration '- k : x' has    *)
(* been loaded; the user creates and deletes a shortcut, saves, makes       *)
(* backups of the file and restores them; the bytes of a backup file may    *)
(* change on disk in between.  backups holds, for each backup file, the     *)
(* record the create_backup command returned last for it.                   *)
(***************************************************************************)
MaxRestoreIds == 2       \* ids handed out (loaded and created)
MaxRestoreBackups == 1   \* backup files
MaxRestoreClock == 1     \* seconds that pass

InitRestore ==
    /\ files = Put(EmptyFs, Target, Utf8Bytes(<<"-", " ", "k", " ", ":", " ", "x", "\n">>))
    /\ config = load_config_from_path(TextFs(files), Target, None, 1).state
    /\ nextId = 2
    /\ candidate = None
    /\ other = None
    /\ writer = WriterIdle
    /\ clock = 0
    /\ backups = <<>>
    /\ lastCmd = [op |-> "none"]
    /\ ExecUnused

\* a request for '- f : x'
RsCreateShortcut ==
    /\ nextId <= MaxRestoreIds
    /\ LET returns(out) ==
              /\ config' = out.state
              /\ lastCmd' = [op |-> "create_shortcut", ok |-> out.result.ok]
       IN returns(create_shortcut([modifiers |-> <<>>, key |-> <<"f">>,
                                   command |-> <<"x">>, mode |-> None,
                                   comment |-> None], config, nextId))
    /\ nextId' = nextId + 1
    /\ UNCHANGED <<candidate, other>>
    /\ UNCHANGED diskVars
    /\ UNCHANGED execVars

RsDeleteShortcut ==
    /\ \E id \in 1..MaxRestoreIds :
          LET returns(out) ==
                  /\ config' = out.state
                  /\ lastCmd' = [op |-> "delete_shortcut", ok |-> out.result.ok]
          IN returns(delete_shortcut(id, config))
    /\ UNCHANGED <<nextId, candidate, other>>
    /\ UNCHANGED diskVars
    /\ UNCHANGED execVars

\* the caller sends the configuration of the state
RsSaveConfig ==
    /\ LET returns(out) ==
              /\ files' = ByteFs(out.fs)
              /\ config' = out.state
              /\ lastCmd' = [op |-> "save_config", ok |-> out.result.ok]
       IN returns(save_config(TextFs(files), config[1], config))
    /\ UNCHANGED <<nextId, candidate, other>>
    /\ UNCHANGED <<writer, clock, backups>>
    /\ UNCHANGED execVars

RsCreateBackup ==
    /\ \/ Len(backups) < MaxRestoreBackups
       \/ \E i \in DOMAIN backups :
             backups[i].file_path = BackupPath(config[1].file_path, clock)
    /\ LET returns(out) ==
              /\ files' = out.fs
              /\ backups' =
                    IF out.result.ok
                    THEN Append(SelectSeq(backups,
                                    LAMBDA b : b.file_path # out.result.value.file_path),
                                out.result.value)
                    ELSE backups
              /\ lastCmd' = [op |-> "create_backup", ok |-> out.result.ok]
       IN returns(create_backup_command(files, config, clock))
    /\ UNCHANGED <<writer, clock>>
    /\ UNCHANGED modelVars
    /\ UNCHANGED execVars

\* the bytes of a backup file change on disk: the file becomes the text
\* '- f : x'
RsTamperFile ==
    /\ \E i \in DOMAIN backups :
       \E bytes \in {Utf8Bytes(<<"-", " ", "f", " ", ":", " ", "x", "\n">>)} :
          /\ files[backups[i].file_path] # bytes
          /\ files' = Put(files, backups[i].file_path, bytes)
    /\ lastCmd' = [op |-> "tamper"]
    /\ UNCHANGED <<writer, clock, backups>>
    /\ UNCHANGED modelVars
    /\ UNCHANGED execVars

RsTick ==
    /\ clock < MaxRestoreClock
    /\ clock' = clock + 1
    /\ UNCHANGED <<files, writer, backups, lastCmd>>
    /\ UNCHANGED modelVars
    /\ UNCHANGED execVars

\* the path is that of a backup the application has listed; read_dir yields
\* the files of the directory in an order of its own
RsRestoreBackup ==
    /\ LET dir == {path \in DOMAIN files : path.dir = "backups"}
           n == Cardinality(dir)
       IN \E i \in DOMAIN backups :
          \E entries \in {e \in [1..n -> dir] : \A j, k \in 1..n : e[j] = e[k] => j = k} :
             LET returns(out) ==
                     /\ files' = out.fs
                     /\ lastCmd' = [op |-> "restore_backup",
                                    backup_path |-> backups[i].file_path,
                                    result |-> out.result]
             IN returns(restore_backup_command(files, backups[i].file_path, config,
                                               entries, [j \in 1..n |-> clock]))
    /\ UNCHANGED <<writer, clock, backups>>
    /\ UNCHANGED modelVars
    /\ UNCHANGED execVars

NextRestore ==
    \/ RsCreateShortcut
    \/ RsDeleteShortcut
    \/ RsSaveConfig
    \/ RsCreateBackup
    \/ RsTamperFile
    \/ RsTick
    \/ RsRestoreBackup

SpecRestore == InitRestore /\ [][NextRestore]_vars

\* C28 as stated: whenever no command is in progress and is_modified is
\* false, the file at file_path holds exactly the serialize_config text of
\* the configuration in the state.
C28_AsStated ==
    (config # None /\ ~config[1].is_modified)
    => Utf8Text(files[config[1].file_path]) = serialize_config(config[1])

\* C29 as stated: a restore_backup command on a backup file whose bytes are
\* no longer those create_backup wrote fails with the checksum mismatch and
\* leaves the target file as it was.
C29_AsStated ==
    [][(/\ lastCmd'.op = "restore_backup"
        /\ \E i \in DOMAIN backups :
              /\ backups[i].file_path = lastCmd'.backup_path
              /\ Sha256(files[backups[i].file_path]) # backups[i].checksum)
       => /\ ~lastCmd'.result.ok
          /\ lastCmd'.result.err.msg = "Failed to restore backup"
          /\ lastCmd'.result.err.cause.msg =
                "Backup checksum mismatch - file may be corrupted"
          /\ files' = files]_vars

====
